---- MODULE Spec2Model ----
(***************************************************************************)
(* Model of the tag-normalization and statement-reconstruction pipeline:   *)
(* the statement transformers (balance sheet, income statement, cash flow, *)
(* shares) of src/data_extract/silver_transformer and the panel builders    *)
(* of src/data_extract/gold_builder.                                       *)
(*                                                                         *)
(* A pandas table is a record [cols, rows]: cols is the set of column      *)
(* names, rows the sequence of rows in table order.  Text columns whose    *)
(* case the code folds (uom, fp) are sequences of characters; a missing    *)
(* text value is NaS, a missing number is NaN.                             *)
(***************************************************************************)
EXTENDS Integers, Sequences, FiniteSets, TLC

VARIABLES
    pc,          \* position inside the running transformer call
    cfg,         \* arguments of the call: statement, forms, fp, return_unknown
    tag_map,     \* the tag_map argument: sequence of <<canon, synonyms>>
    long,        \* the long fact table being filtered (bs_long / is_long / cf_long / df)
    input,       \* the long fact table as the extractor returned it
    unknown,     \* rows whose tag has no canonical field
    mapped,      \* rows with a canonical field (before / after collision resolution)
    ret,         \* value returned by the transformer: [wide, unknown]
    run,         \* 1 on the first run of the transformer on the archive, 2 on the second
    first,       \* what the first run returned and the silver file it left: [ret, file]
    out_file,    \* the silver file at out_path
    gpc,         \* position of the archive-by-archive build (build_everything_for_zip)
    yq,          \* index in YQS of the archive being built
    zip,         \* the archive: [yq, members, error]
    sub,         \* its submissions table: [cols, ids], filing ids in file order
    archived,    \* the filings of the archives built so far
    silver,      \* its silver tables: [bs, is_, cf, sh, meta]
    call,        \* the build_gold_zip call: [built, raised, k, df, joined, panel]
    gold,        \* per-archive panel files, by index in YQS: [exists, df]
    master       \* the master panel file written by build_gold_all

gold_vars == <<gpc, yq, zip, sub, archived, silver, call, gold, master>>
silver_vars == <<pc, cfg, tag_map, input, long, unknown, mapped, ret, run, first, out_file>>
vars == <<silver_vars, gold_vars>>

-----------------------------------------------------------------------------
(* Bounds *)

MaxFacts == 2

(* Missing values *)
NaN == -999
NaS == "NaN"
NaU == <<>>

-----------------------------------------------------------------------------
(* Text helpers: str.lower() / str.upper() over the characters in use *)

LowerChar(c) ==
    CASE c = "U" -> "u" [] c = "S" -> "s" [] c = "D" -> "d" [] c = "T" -> "t"
      [] c = "H" -> "h" [] c = "M" -> "m" [] c = "E" -> "e" [] c = "R" -> "r"
      [] c = "F" -> "f" [] c = "Y" -> "y" [] c = "Q" -> "q" [] c = "N" -> "n"
      [] c = "A" -> "a" [] c = "B" -> "b" [] c = "C" -> "c"
      [] OTHER -> c

UpperChar(c) ==
    CASE c = "u" -> "U" [] c = "s" -> "S" [] c = "d" -> "D" [] c = "t" -> "T"
      [] c = "h" -> "H" [] c = "m" -> "M" [] c = "e" -> "E" [] c = "r" -> "R"
      [] c = "f" -> "F" [] c = "y" -> "Y" [] c = "q" -> "Q" [] c = "n" -> "N"
      [] c = "a" -> "A" [] c = "i" -> "I" [] c = "l" -> "L" [] c = "o" -> "O"
      [] c = "b" -> "B" [] c = "c" -> "C"
      [] OTHER -> c

Lower(s) == [i \in 1..Len(s) |-> LowerChar(s[i])]
Upper(s) == [i \in 1..Len(s) |-> UpperChar(s[i])]

\* astype(str): a missing value becomes the text "nan"
AsStr(s) == IF s = NaU THEN <<"n", "a", "n">> ELSE s

-----------------------------------------------------------------------------
(* Configuration: unit table and form sets *)

U_USD          == <<"U", "S", "D">>
U_USDm         == <<"U", "S", "D", "m">>
U_USDmillions  == <<"U", "S", "D", "m", "i", "l", "l", "i", "o", "n", "s">>
U_USDth        == <<"U", "S", "D", "t", "h">>
U_USDthousands == <<"U", "S", "D", "t", "h", "o", "u", "s", "a", "n", "d", "s">>
U_shares       == <<"s", "h", "a", "r", "e", "s">>

\* dict in insertion order: <<unit, multiplier>>
UOM_MULTIPLIERS == <<
    <<U_USD, 1>>,
    <<U_USDm, 1000000>>,
    <<U_USDmillions, 1000000>>,
    <<U_USDth, 1000>>,
    <<U_USDthousands, 1000>> >>

MONETARY_UOMS == {UOM_MULTIPLIERS[i][1] : i \in 1..Len(UOM_MULTIPLIERS)}

ANNUAL_FORMS    == {"10-K", "10-K/A"}
QUARTERLY_FORMS == {"10-Q", "10-Q/A"}
ALL_FORMS       == ANNUAL_FORMS \cup QUARTERLY_FORMS

-----------------------------------------------------------------------------
(* Tag maps: canonical field -> ordered synonyms, in dict order *)

BS_TAGMAP == <<
    <<"Goodwill", <<"Goodwill">> >>,
    <<"TotalAssets", <<"Assets", "LiabilitiesAndStockholdersEquity",
                       "LiabilitiesAndEquity", "EquityAndLiabilities">> >>,
    <<"TotalLiabilities", <<"Liabilities">> >>,
    <<"ShareholdersEquity", <<"StockholdersEquity",
        "StockholdersEquityIncludingPortionAttributableToNoncontrollingInterest",
        "Equity", "TotalEquity", "EquityAttributableToOwnersOfParent">> >> >>

IS_TAGMAP == <<
    <<"Revenue", <<"RevenueFromContractWithCustomerExcludingAssessedTax", "Revenues",
                   "RevenueFromContractWithCustomerIncludingAssessedTax",
                   "SalesRevenueNet">> >>,
    <<"GrossProfit", <<"GrossProfit">> >>,
    <<"OperatingIncome", <<"OperatingIncomeLoss", "ProfitLossFromOperatingActivities">> >>,
    <<"NetIncome", <<"NetIncomeLoss", "ProfitLoss">> >> >>

CF_TAGMAP == <<
    <<"CFO", <<"NetCashProvidedByUsedInOperatingActivities",
               "CashFlowsFromUsedInOperatingActivities">> >>,
    <<"CFI", <<"NetCashProvidedByUsedInInvestingActivities",
               "CashFlowsFromUsedInInvestingActivities">> >>,
    <<"CFF", <<"NetCashProvidedByUsedInFinancingActivities",
               "CashFlowsFromUsedInFinancingActivities">> >> >>

SHARES_TAGMAP == <<
    <<"CommonSharesOutstanding", <<"CommonStockSharesOutstanding",
        "NumberOfSharesOutstanding", "SharesOutstanding",
        "NumberOfSharesOutstandingBasic",
        "CommonStockSharesOutstandingIncludingEffectOfRecapitalization",
        "CommonStockSharesNotOutstanding", "CommonStockLiabilityShares",
        "CommonStockRepresentativeShares">> >>,
    <<"CommonSharesIssued", <<"CommonStockSharesIssued", "NumberOfSharesIssued",
        "SharesIssued", "CommonStockIssuedShares">> >>,
    <<"EPS", <<"EarningsPerShareAttributableToCommonShareholders">> >> >>

DefaultTagMap(stmt) ==
    CASE stmt = "BS" -> BS_TAGMAP
      [] stmt = "IS" -> IS_TAGMAP
      [] stmt = "CF" -> CF_TAGMAP
      [] stmt = "SH" -> SHARES_TAGMAP

Canons(tm) == {tm[i][1] : i \in 1..Len(tm)}

\* [canon, *(syns or [])]
Order(entry) == <<entry[1]>> \o entry[2]

SeqRange(s) == {s[i] : i \in 1..Len(s)}

-----------------------------------------------------------------------------
(* Generic sequence helpers *)

RECURSIVE LexLess(_, _)
\* lexicographic order on equally long integer key tuples
LexLess(a, b) ==
    IF a = <<>> \/ b = <<>> THEN FALSE
    ELSE IF Head(a) # Head(b) THEN Head(a) < Head(b)
         ELSE LexLess(Tail(a), Tail(b))

RECURSIVE InsertSorted(_, _)
\* insert x after every element whose key does not come strictly after x's
InsertSorted(x, s) ==
    IF s = <<>> THEN <<x>>
    ELSE IF LexLess(x.k, Head(s).k) THEN <<x>> \o s
         ELSE <<Head(s)>> \o InsertSorted(x, Tail(s))

RECURSIVE StableSort(_)
\* sort_values on keyed rows [k, d, r]: stable, equal keys keep input order
StableSort(s) ==
    IF s = <<>> THEN <<>>
    ELSE InsertSorted(s[Len(s)], StableSort(SubSeq(s, 1, Len(s) - 1)))

RECURSIVE KeepFirst(_)
\* drop_duplicates(keep="first") on the duplicate key d
KeepFirst(s) ==
    IF s = <<>> THEN <<>>
    ELSE LET rest == KeepFirst(SubSeq(s, 1, Len(s) - 1))
             x == s[Len(s)]
         IN  IF \E i \in 1..Len(rest) : rest[i].d = x.d THEN rest ELSE Append(rest, x)

RECURSIVE KeepLast(_)
\* drop_duplicates(keep="last") on the duplicate key d
KeepLast(s) ==
    IF s = <<>> THEN <<>>
    ELSE LET rest == KeepLast(Tail(s))
             x == Head(s)
         IN  IF \E i \in 1..Len(rest) : rest[i].d = x.d THEN rest ELSE <<x>> \o rest

Rows(keyed) == [i \in 1..Len(keyed) |-> keyed[i].r]

Abs(v) == IF v < 0 THEN -v ELSE v

-----------------------------------------------------------------------------
(* Input: the filings of the archive and the long fact table of one        *)
(* statement as its extractor returns it                                   *)

FpNone == <<>>
FY == <<"F", "Y">>

IdCols == {"adsh", "cik", "name", "form", "fy", "fp", "filed", "period", "sic"}
FactCols == {"adsh", "tag", "ddate", "qtrs", "uom", "value"}

\* submissions table: one row per filing
Filings == [a \in {0, 1, 2, 3, 4} |->
    CASE a = 0 -> [adsh |-> 0, cik |-> 1, name |-> "Acme", form |-> "10-K/A", fy |-> 2020,
                   fp |-> FY, period |-> 2, filed |-> 5, sic |-> 10,
                   instance |-> <<"a", "m", "e", "-", "2", "0", ".", "x", "m", "l">>]
      [] a = 1 -> [adsh |-> 1, cik |-> 1, name |-> "Acme", form |-> "10-K", fy |-> 2020,
                   fp |-> FY, period |-> 2, filed |-> 5, sic |-> 10,
                   instance |-> <<"a", "m", "e", ".", "x", "m", "l">>]
      [] a = 2 -> [adsh |-> 2, cik |-> 1, name |-> "Acme", form |-> "10-Q", fy |-> 2020,
                   fp |-> <<"Q", "1">>, period |-> 1, filed |-> 3, sic |-> 10,
                   instance |-> <<"a", "m", "e", "_", "q", "1", ".", "x", "m", "l">>]
      [] a = 3 -> [adsh |-> 3, cik |-> 2, name |-> "Bolt", form |-> "10-K/A", fy |-> 2020,
                   fp |-> <<"f", "y">>, period |-> 2, filed |-> 6, sic |-> NaN,
                   instance |-> <<"r", "2", ".", "h", "t", "m">>]
      [] a = 4 -> [adsh |-> 4, cik |-> 1, name |-> "Acme", form |-> "10-Q/A", fy |-> 2020,
                   fp |-> <<"Q", "1">>, period |-> 1, filed |-> 4, sic |-> 10,
                   instance |-> NaU]]

NoMeta(a) == [adsh |-> a, cik |-> NaN, name |-> NaS, form |-> NaS, fy |-> NaN,
              fp |-> NaU, period |-> NaN, filed |-> NaN, sic |-> NaN]

\* valid_forms of each extractor: facts of other filings get no metadata (left join)
ExtractorForms(stmt) ==
    CASE stmt = "BS" -> {"10-K", "10-K/A"}
      [] stmt = "IS" -> {"10-K", "10-K/A", "20-F", "40-F"}
      [] stmt = "CF" -> {"10-K", "10-K/A", "10-Q", "10-Q/A"}
      [] stmt = "SH" -> {Filings[a].form : a \in DOMAIN Filings}

ExtractorMeta(stmt, a) ==
    IF Filings[a].form \in ExtractorForms(stmt) THEN Filings[a] ELSE NoMeta(a)

LongCols(stmt) ==
    IF stmt = "SH" THEN FactCols \cup IdCols
    ELSE FactCols \cup IdCols \cup {"source_zip"}

MkFact(stmt, a, tag, ddate, qtrs, uom, value) ==
    LET m == ExtractorMeta(stmt, a)
    IN  [adsh |-> a, tag |-> tag, ddate |-> ddate, qtrs |-> qtrs, uom |-> uom,
         value |-> value, cik |-> m.cik, name |-> m.name, form |-> m.form,
         fy |-> m.fy, fp |-> m.fp, period |-> m.period, filed |-> m.filed,
         sic |-> m.sic]

IsMonetary(stmt) == stmt \in {"BS", "IS", "CF"}

AlignedQ(stmt) == IF stmt \in {"BS", "SH"} THEN "0" ELSE "4"
BaseUnit(stmt) == IF IsMonetary(stmt) THEN U_USD ELSE U_shares
AltUnits(stmt) ==
    IF IsMonetary(stmt)
    THEN {<<"u", "s", "d", "T", "H">>, <<"E", "U", "R">>}
    ELSE {<<"S", "h", "a", "r", "e", "s">>, U_USD}

\* tags the facts of a statement use: two synonyms of one field (preferred,
\* less preferred), the field's canonical name, a tag of another field, an
\* unmapped tag
PrefTag(stmt) ==
    CASE stmt = "BS" -> "StockholdersEquity"
      [] stmt = "IS" -> "NetIncomeLoss"
      [] stmt = "CF" -> "NetCashProvidedByUsedInOperatingActivities"
      [] stmt = "SH" -> "CommonStockSharesOutstanding"
LowTag(stmt) ==
    CASE stmt = "BS" -> "Equity"
      [] stmt = "IS" -> "ProfitLoss"
      [] stmt = "CF" -> "CashFlowsFromUsedInOperatingActivities"
      [] stmt = "SH" -> "SharesOutstanding"
CanonTag(stmt) ==
    CASE stmt = "BS" -> "ShareholdersEquity"
      [] stmt = "IS" -> "NetIncome"
      [] stmt = "CF" -> "CFO"
      [] stmt = "SH" -> "CommonSharesOutstanding"
OtherTag(stmt) ==
    CASE stmt = "BS" -> "Assets"
      [] stmt = "IS" -> "Revenues"
      [] stmt = "CF" -> "NetCashProvidedByUsedInInvestingActivities"
      [] stmt = "SH" -> "CommonStockSharesIssued"
UnmappedTag == "Foo"

Quarters == {"0", "1", "4", NaS}

FactUniverse(stmt) ==
    LET p1 == Filings[1].period
    IN  {MkFact(stmt, 1, t, p1, AlignedQ(stmt), BaseUnit(stmt), v) :
            t \in {PrefTag(stmt), LowTag(stmt)}, v \in {-2, 1, 2}}
        \cup {MkFact(stmt, 1, t, p1, AlignedQ(stmt), BaseUnit(stmt), 1) :
            t \in {CanonTag(stmt), OtherTag(stmt), UnmappedTag}}
        \cup {MkFact(stmt, 1, PrefTag(stmt), p1, q, BaseUnit(stmt), 3) :
            q \in Quarters \ {AlignedQ(stmt)}}
        \cup {MkFact(stmt, 1, PrefTag(stmt), p1 - 1, AlignedQ(stmt), BaseUnit(stmt), 3)}
        \cup {MkFact(stmt, 1, PrefTag(stmt), p1, AlignedQ(stmt), u, 3) :
            u \in AltUnits(stmt)}
        \cup {MkFact(stmt, 2, PrefTag(stmt), Filings[2].period, q, BaseUnit(stmt), 1) :
            q \in {"1", "4"}}
        \cup {MkFact(stmt, 3, PrefTag(stmt), Filings[3].period, AlignedQ(stmt),
                     BaseUnit(stmt), 1)}

SeqsUpTo(S, n) == UNION {[1..k -> S] : k \in 0..n}

Configs ==
    [stmt : {"BS", "IS", "CF", "SH"},
     forms : {ALL_FORMS, ANNUAL_FORMS},
     fp : {FpNone, FY},
     return_unknown : BOOLEAN]

EmptyDF == [cols |-> {}, rows |-> <<>>]
NoRet == [wide |-> EmptyDF, unknown |-> EmptyDF, pair |-> FALSE]
\* no file at out_path
NoFile == [cols |-> {}, rows |-> <<"no file">>]
NoFirst == [ret |-> NoRet, file |-> NoFile]

Init ==
    /\ pc = "extracted"
    /\ cfg \in {c \in Configs : ((c.forms = ANNUAL_FORMS) <=> (c.fp = FY))
                                 /\ (c.fp = FY => ~c.return_unknown)}
    /\ tag_map = DefaultTagMap(cfg.stmt)
    /\ input \in [cols : {LongCols(cfg.stmt)},
                  rows : SeqsUpTo(FactUniverse(cfg.stmt), MaxFacts)]
    /\ long = input
    /\ unknown = EmptyDF
    /\ mapped = EmptyDF
    /\ ret = NoRet
    /\ run = 1
    /\ first = NoFirst
    /\ out_file = NoFile
    /\ gpc = "idle"
    /\ yq = 0
    /\ zip = <<>>
    /\ sub = <<>>
    /\ archived = {}
    /\ silver = <<>>
    /\ call = <<>>
    /\ gold = <<>>
    /\ master = <<>>

-----------------------------------------------------------------------------
(* The statement transformers                                              *)

\* ==: a comparison with a missing value is false
Eq(a, b) == a # NaN /\ b # NaN /\ a = b

\* early return: (pd.DataFrame(), pd.DataFrame()) or pd.DataFrame()
ReturnEmpty(unk) ==
    /\ pc' = "done"
    /\ ret' = [wide |-> EmptyDF, unknown |-> unk, pair |-> cfg.return_unknown]

\* form / fp mask (the shares transformer adds the at-period date to it)
FormFpMask(r) ==
    /\ r.form \in cfg.forms
    /\ cfg.fp # FpNone => Upper(AsStr(r.fp)) = Upper(cfg.fp)
    /\ cfg.stmt = "SH" => Eq(r.ddate, r.period)

FormFpFilter ==
    /\ pc = "extracted"
    /\ IF long.rows = <<>>
       THEN /\ ReturnEmpty(EmptyDF)
            /\ UNCHANGED long
       ELSE LET kept == SelectSeq(long.rows, FormFpMask)
            IN  /\ long' = [long EXCEPT !.rows = kept]
                /\ IF kept = <<>>
                   THEN ReturnEmpty(EmptyDF)
                   ELSE pc' = "filtered" /\ UNCHANGED ret
    /\ UNCHANGED <<gold_vars, run, first, out_file, cfg, tag_map, input, unknown, mapped>>

\* instant rows of the balance sheet: qtrs.fillna("0") == "0", ddate == period
InstantMask(r) ==
    /\ (IF r.qtrs = NaS THEN "0" ELSE r.qtrs) = "0"
    /\ Eq(r.ddate, r.period)

\* the duration mask without the distinction of annual and quarterly forms
DurationMask_AnyForm(r) ==
    /\ r.form \in ANNUAL_FORMS \cup QUARTERLY_FORMS
    /\ r.qtrs \in {"1", "2", "3", "4"}
    /\ Eq(r.ddate, r.period)

\* duration rows of the income statement and the cash flow
DurationMask(r) ==
    /\ \/ r.form \in ANNUAL_FORMS /\ r.qtrs = "4"
       \/ r.form \in QUARTERLY_FORMS /\ r.qtrs \in {"1", "2", "3"}
    /\ Eq(r.ddate, r.period)

\* shares: instant and duration rows
SharesQtrsMask(r) == r.qtrs \in {"0", "1", "2", "3", "4"}

TemporalMask(r) ==
    CASE cfg.stmt = "BS" -> InstantMask(r)
      [] cfg.stmt \in {"IS", "CF"} -> DurationMask(r)
      [] cfg.stmt = "SH" -> SharesQtrsMask(r)

NotNaNValue(r) == r.value # NaN

TemporalFilter ==
    /\ \/ cfg.stmt # "SH" /\ pc = "filtered"
       \/ cfg.stmt = "SH" /\ pc = "units"
    /\ LET kept == SelectSeq(long.rows, TemporalMask)
           \* shares: pd.to_numeric(value) and dropna follow the qtrs filter
           nums == IF cfg.stmt = "SH" THEN SelectSeq(kept, NotNaNValue) ELSE kept
       IN  /\ long' = [long EXCEPT !.rows = nums]
           /\ IF nums = <<>>
              THEN ReturnEmpty(EmptyDF)
              ELSE /\ pc' = (IF cfg.stmt = "SH" THEN "normalized" ELSE "aligned")
                   /\ UNCHANGED ret
    /\ UNCHANGED <<gold_vars, run, first, out_file, cfg, tag_map, input, unknown, mapped>>

RECURSIVE UomLookup(_, _)
\* the loop of _uom_mult over UOM_MULTIPLIERS.items(): first key equal to ul
UomLookup(ul, items) ==
    IF items = <<>> THEN 1
    ELSE IF ul = Lower(Head(items)[1]) THEN Head(items)[2]
         ELSE UomLookup(ul, Tail(items))

_uom_mult(u) == IF u = NaU THEN 1 ELSE UomLookup(Lower(u), UOM_MULTIPLIERS)

\* no unit filter: a unit outside the table passes with multiplier 1
MonetaryUnitMask_All(r) == TRUE

MonetaryUnitMask(r) == Lower(AsStr(r.uom)) \in {Lower(u) : u \in MONETARY_UOMS}

SharesUnitMask(r) == Lower(AsStr(r.uom)) = U_shares

Times(v, m) == IF v = NaN THEN NaN ELSE v * m

Scale(r) == [r EXCEPT !.value = Times(r.value, _uom_mult(r.uom))]

UnitFilter ==
    /\ \/ cfg.stmt # "SH" /\ pc = "aligned"
       \/ cfg.stmt = "SH" /\ pc = "filtered"
    /\ LET kept == IF cfg.stmt = "SH"
                   THEN SelectSeq(long.rows, SharesUnitMask)
                   ELSE SelectSeq(long.rows, MonetaryUnitMask)
           scaled == IF cfg.stmt = "SH" THEN kept
                     ELSE SelectSeq([i \in 1..Len(kept) |-> Scale(kept[i])], NotNaNValue)
       IN  /\ long' = [long EXCEPT !.rows = scaled]
           /\ IF scaled = <<>>
              THEN ReturnEmpty(EmptyDF)
              ELSE /\ pc' = (IF cfg.stmt = "SH" THEN "units" ELSE "normalized")
                   /\ UNCHANGED ret
    /\ UNCHANGED <<gold_vars, run, first, out_file, cfg, tag_map, input, unknown, mapped>>

Max(S) == CHOOSE x \in S : \A y \in S : y <= x

\* the reverse map without the canonical names themselves
_reverse_map_SynonymsOnly(forward, t) ==
    LET hits == {i \in 1..Len(forward) : t \in SeqRange(forward[i][2])}
    IN  IF hits = {} THEN NaS ELSE forward[Max(hits)][1]

\* _reverse_map: tag -> canon; a tag listed under several fields keeps the
\* field that comes last in the dict
_reverse_map(forward, t) ==
    LET hits == {i \in 1..Len(forward) : t \in SeqRange(Order(forward[i]))}
    IN  IF hits = {} THEN NaS ELSE forward[Max(hits)][1]

WithCanon(r, c) == [x \in DOMAIN r \cup {"canon"} |-> IF x = "canon" THEN c ELSE r[x]]

IsUnknown(r) == r.canon = NaS
IsMapped(r) == r.canon # NaS

MapTags ==
    /\ pc = "normalized"
    /\ LET tagged == [i \in 1..Len(long.rows) |->
                         WithCanon(long.rows[i], _reverse_map(tag_map, long.rows[i].tag))]
           cols == long.cols \cup {"canon"}
           unk == [cols |-> cols, rows |-> SelectSeq(tagged, IsUnknown)]
           map == [cols |-> cols, rows |-> SelectSeq(tagged, IsMapped)]
       IN  /\ long' = [cols |-> cols, rows |-> tagged]
           /\ unknown' = unk
           /\ mapped' = map
           /\ IF map.rows = <<>>
              THEN /\ pc' = "done"
                   /\ ret' = [wide |-> EmptyDF,
                              unknown |-> IF cfg.return_unknown THEN unk ELSE EmptyDF,
                              pair |-> cfg.return_unknown]
              ELSE pc' = "partitioned" /\ UNCHANGED ret
    /\ UNCHANGED <<gold_vars, run, first, out_file, cfg, tag_map, input>>

UnlistedRank == 10000

\* pref_rank[(canon, t)] = i for i, t in enumerate([canon, *syns]): a tag that
\* occurs twice in the order keeps the index of its last occurrence
pref_rank(forward, canon, t) ==
    LET es == {i \in 1..Len(forward) : forward[i][1] = canon}
        hits == {<<e, i>> \in es \X (1..20) :
                    i <= Len(Order(forward[e])) /\ Order(forward[e])[i] = t}
    IN  IF hits = {} THEN UnlistedRank
        ELSE Max({h[2] : h \in hits}) - 1

\* position of a canonical name in the lexicographic order of column names
SortedCanonNames == <<"CFF", "CFI", "CFO", "CommonSharesIssued",
    "CommonSharesOutstanding", "CostOfRevenue", "EPS", "Goodwill", "GrossProfit", "NetIncome",
    "OperatingIncome", "Revenue", "ShareholdersEquity", "TotalAssets",
    "TotalLiabilities">>

CanonKey(c) == CHOOSE i \in 1..Len(SortedCanonNames) : SortedCanonNames[i] = c

\* the sort with the magnitude ahead of the synonym rank
CollisionKey_AbsFirst(r) ==
    <<r.adsh, CanonKey(r.canon), -Abs(r.value), pref_rank(tag_map, r.canon, r.tag)>>

\* sort_values(["adsh","canon","__rank","__abs"], ascending=[T,T,T,F])
CollisionKey(r) ==
    <<r.adsh, CanonKey(r.canon), pref_rank(tag_map, r.canon, r.tag), -Abs(r.value)>>

Resolve(rows) ==
    Rows(KeepFirst(StableSort(
        [i \in 1..Len(rows) |-> [k |-> CollisionKey(rows[i]),
                                 d |-> <<rows[i].adsh, rows[i].canon>>,
                                 r |-> rows[i]]])))

ResolveCollisions ==
    /\ pc = "partitioned"
    /\ mapped' = [mapped EXCEPT !.rows = Resolve(mapped.rows)]
    /\ pc' = "resolved"
    /\ UNCHANGED <<gold_vars, run, first, out_file, cfg, tag_map, input, long, unknown, ret>>

IdOf(r) == [c \in IdCols |-> r[c]]

\* pivot_table drops the rows that have a missing value in an index column;
\* the shares transformer has turned form and fp into text before
HasNaNIndex(r) ==
    \/ r.cik = NaN \/ r.fy = NaN \/ r.filed = NaN \/ r.period = NaN \/ r.sic = NaN
    \/ r.name = NaS
    \/ cfg.stmt # "SH" /\ (r.form = NaS \/ r.fp = NaU)

Groupable(r) == ~HasNaNIndex(r)

\* pivot_table(index=index_cols, columns="canon", values="value", aggfunc="first")
PivotTable(rows) ==
    LET kept == SelectSeq(rows, Groupable)
        ids == Rows(StableSort(KeepFirst(
                   [i \in 1..Len(kept) |-> [k |-> <<kept[i].adsh>>,
                                            d |-> IdOf(kept[i]),
                                            r |-> IdOf(kept[i])]])))
        canons == {kept[i].canon : i \in 1..Len(kept)}
        First(id, c) ==
            LET hits == {i \in 1..Len(kept) : IdOf(kept[i]) = id /\ kept[i].canon = c}
            IN  IF hits = {} THEN NaN ELSE kept[CHOOSE i \in hits : \A j \in hits : i <= j].value
    IN  [cols |-> IdCols \cup canons,
         rows |-> [n \in 1..Len(ids) |->
                      [id |-> ids[n], vals |-> [c \in canons |-> First(ids[n], c)]]]]

to_parquet_Append(file, wide) ==
    IF file = NoFile THEN wide
    ELSE [cols |-> file.cols \cup wide.cols, rows |-> file.rows \o wide.rows]

\* wide.to_parquet(out_path, index=False): the file is replaced
to_parquet(file, wide) == wide

Pivot ==
    /\ pc = "resolved"
    /\ pc' = "done"
    /\ ret' = [wide |-> PivotTable(mapped.rows),
               unknown |-> IF cfg.return_unknown THEN unknown ELSE EmptyDF,
               pair |-> cfg.return_unknown]
    /\ out_file' = to_parquet(out_file, PivotTable(mapped.rows))
    /\ UNCHANGED <<gold_vars, run, first, cfg, tag_map, input, long, unknown, mapped>>

Next ==
    \/ FormFpFilter
    \/ TemporalFilter
    \/ UnitFilter
    \/ MapTags
    \/ ResolveCollisions
    \/ Pivot

Spec == Init /\ [][Next]_vars

-----------------------------------------------------------------------------
(* The same transformer run a second time on the same archive              *)

MaxRerunFacts == 2

\* build_everything_for_zip passes the archive and out_path only
InitRerun ==
    /\ pc = "extracted"
    /\ cfg \in {c \in Configs : c.forms = ALL_FORMS /\ c.fp = FpNone /\ ~c.return_unknown}
    /\ tag_map = DefaultTagMap(cfg.stmt)
    /\ input \in [cols : {LongCols(cfg.stmt)},
                  rows : SeqsUpTo(FactUniverse(cfg.stmt), MaxRerunFacts)]
    /\ long = input
    /\ unknown = EmptyDF
    /\ mapped = EmptyDF
    /\ ret = NoRet
    /\ run = 1
    /\ first = NoFirst
    /\ out_file = NoFile
    /\ gpc = "idle"
    /\ yq = 0
    /\ zip = <<>>
    /\ sub = <<>>
    /\ archived = {}
    /\ silver = <<>>
    /\ call = <<>>
    /\ gold = <<>>
    /\ master = <<>>

\* the second call: the extractor reads the archive again, the tag map and
\* the options are those of the first call, the file of the first run is
\* still at out_path
Rerun ==
    /\ pc = "done"
    /\ run = 1
    /\ run' = 2
    /\ first' = [ret |-> ret, file |-> out_file]
    /\ pc' = "extracted"
    /\ long' = input
    /\ unknown' = EmptyDF
    /\ mapped' = EmptyDF
    /\ ret' = NoRet
    /\ UNCHANGED <<gold_vars, out_file, cfg, tag_map, input>>

NextRerun ==
    \/ Next
    \/ Rerun

SpecRerun == InitRerun /\ [][NextRerun]_vars

\* the orders in which n rows can be given
RowOrders(n) ==
    {p \in [1..n -> 1..n] : \A i, j \in 1..n : p[i] = p[j] => i = j}

\* the second call is given the fact rows of the first in another order
RerunPermuted ==
    /\ pc = "done"
    /\ run = 1
    /\ \E p \in RowOrders(Len(input.rows)) :
          /\ input' = [input EXCEPT !.rows = [i \in 1..Len(input.rows) |-> input.rows[p[i]]]]
          /\ long' = input'
    /\ run' = 2
    /\ first' = [ret |-> ret, file |-> out_file]
    /\ pc' = "extracted"
    /\ unknown' = EmptyDF
    /\ mapped' = EmptyDF
    /\ ret' = NoRet
    /\ UNCHANGED <<gold_vars, out_file, cfg, tag_map>>

NextPermuted ==
    \/ Next
    \/ RerunPermuted

SpecPermuted == InitRerun /\ [][NextPermuted]_vars

-----------------------------------------------------------------------------
(* The income-statement transformer called with either income-statement    *)
(* tag map of the repository                                               *)

MaxRankFacts == 2

\* the first entries of the income-statement map of data_prep: Revenue and
\* CostOfRevenue repeat their own name in their synonym list
PREP_IS_TAGMAP == <<
    <<"Revenue", <<"Revenues", "Revenue", "SalesRevenueNet",
                   "RevenueFromContractWithCustomerExcludingAssessedTax",
                   "RevenueFromContractWithCustomerIncludingAssessedTax">> >>,
    <<"CostOfRevenue", <<"CostOfRevenue", "CostOfGoodsAndServicesSold",
                         "CostOfSales">> >>,
    <<"GrossProfit", <<"GrossProfit">> >> >>

\* facts of one filing tagged with a canonical name or with a synonym
RankFacts ==
    {MkFact("IS", 1, t, Filings[1].period, AlignedQ("IS"), BaseUnit("IS"), v) :
        t \in {"Revenue", "Revenues", "SalesRevenueNet", "GrossProfit",
               "NetIncome", "NetIncomeLoss"},
        v \in {1, 2}}

InitRank ==
    /\ pc = "extracted"
    /\ cfg \in {c \in Configs : c.stmt = "IS" /\ c.forms = ALL_FORMS /\ c.fp = FpNone}
    /\ tag_map \in {IS_TAGMAP, PREP_IS_TAGMAP}
    /\ input \in [cols : {LongCols("IS")},
                  rows : SeqsUpTo(RankFacts, MaxRankFacts)]
    /\ long = input
    /\ unknown = EmptyDF
    /\ mapped = EmptyDF
    /\ ret = NoRet
    /\ run = 1
    /\ first = NoFirst
    /\ out_file = NoFile
    /\ gpc = "idle"
    /\ yq = 0
    /\ zip = <<>>
    /\ sub = <<>>
    /\ archived = {}
    /\ silver = <<>>
    /\ call = <<>>
    /\ gold = <<>>
    /\ master = <<>>

SpecRank == InitRank /\ [][Next]_vars

-----------------------------------------------------------------------------
(* Properties of the statement transformers                                *)

PivotReturned == pc = "done" /\ mapped.rows # <<>>
WideRows == {ret.wide.rows[i] : i \in 1..Len(ret.wide.rows)}
LongRows == {long.rows[i] : i \in 1..Len(long.rows)}
InputRows == {input.rows[i] : i \in 1..Len(input.rows)}

\* the facts of filing a that went to collision resolution for field c
Candidates(a, c) == {r \in LongRows : r.adsh = a /\ r.canon = c}

\* position of a tag in the configured synonym list of its field; the field's
\* own name, when the list does not repeat it, comes before the list
SynonymRank(canon, t) ==
    LET es == {i \in 1..Len(tag_map) : tag_map[i][1] = canon}
        syns == tag_map[CHOOSE e \in es : TRUE][2]
        at == {i \in 1..Len(syns) : syns[i] = t}
    IN  IF es = {} THEN UnlistedRank + 1
        ELSE IF at # {} THEN CHOOSE i \in at : \A j \in at : i <= j
        ELSE IF t = canon THEN 0
        ELSE UnlistedRank + 1

Preferred(f, g) ==
    \/ SynonymRank(f.canon, f.tag) < SynonymRank(g.canon, g.tag)
    \/ /\ SynonymRank(f.canon, f.tag) = SynonymRank(g.canon, g.tag)
       /\ Abs(f.value) >= Abs(g.value)

\* C1: in the wide row of a filing, every canonical column holds the value of
\* the candidate fact with the lowest synonym rank and, among candidates of
\* that rank, the largest absolute value, whatever the order of the input rows.
C1_CollisionPreference ==
    PivotReturned =>
        \A w \in WideRows : \A c \in DOMAIN w.vals :
            Candidates(w.id.adsh, c) # {} =>
                \E f \in Candidates(w.id.adsh, c) :
                    /\ w.vals[c] = f.value
                    /\ \A g \in Candidates(w.id.adsh, c) : Preferred(f, g)

\* a preferred synonym of small magnitude met a less preferred one of larger
\* magnitude in one filing, and the table was pivoted
C1_Witness ==
    /\ PivotReturned
    /\ \E w \in WideRows : \E c \in DOMAIN w.vals :
          \E f, g \in Candidates(w.id.adsh, c) :
              /\ SynonymRank(c, f.tag) < SynonymRank(c, g.tag)
              /\ Abs(f.value) < Abs(g.value)
              /\ w.vals[c] = f.value

\* the candidates of filing a for field c whose tag is the field's own name
Canonical(a, c) == {f \in Candidates(a, c) : f.tag = c}

\* C23: whatever tag map is passed, a fact tagged with the canonical field
\* name itself has rank 0 and wins collision resolution over the facts of the
\* same filing tagged with any other synonym of the field, also when the map
\* repeats the canonical name inside its own synonym list.
C23_CanonicalNameWins ==
    PivotReturned =>
        \A w \in WideRows : \A c \in DOMAIN w.vals :
            Canonical(w.id.adsh, c) # {} =>
                /\ pref_rank(tag_map, c, c) = 0
                /\ \E f \in Canonical(w.id.adsh, c) : w.vals[c] = f.value

\* C28: the wide table of a statement transformer is the same for every
\* order of the input fact rows: the call on the permuted rows returns the
\* table the call on the original rows returned.
C28_PermutationInvariant ==
    (run = 2 /\ pc = "done") => ret.wide = first.ret.wide

\* the tag is the name of a canonical field or one of its listed synonyms
Listed(t) ==
    \E i \in 1..Len(tag_map) : t = tag_map[i][1] \/ t \in SeqRange(tag_map[i][2])

\* the canonical field a listed tag belongs to
FieldsOf(t) ==
    {tag_map[i][1] : i \in {j \in 1..Len(tag_map) :
                               t = tag_map[j][1] \/ t \in SeqRange(tag_map[j][2])}}

\* scale of a unit of the multiplier table, 0 for a unit that is not in it
RecognizedScale(u) ==
    LET l == Lower(u)
    IN  CASE l = <<"u", "s", "d">> -> 1
          [] l = <<"u", "s", "d", "t", "h">> -> 1000
          [] l = <<"u", "s", "d", "t", "h", "o", "u", "s", "a", "n", "d", "s">> -> 1000
          [] l = <<"u", "s", "d", "m">> -> 1000000
          [] l = <<"u", "s", "d", "m", "i", "l", "l", "i", "o", "n", "s">> -> 1000000
          [] OTHER -> 0

\* value a fact contributes after unit normalization (shares are not scaled)
NormalValue(f) ==
    IF IsMonetary(cfg.stmt) THEN f.value * RecognizedScale(f.uom) ELSE f.value

\* the input facts a cell of the wide table can have its value from
Sources(w, c) ==
    {f \in InputRows : f.adsh = w.id.adsh /\ c \in FieldsOf(f.tag)
                       /\ NormalValue(f) = w.vals[c]}

AfterTemporalFilter == pc \notin {"extracted", "filtered"}

\* C2 (as claimed): every balance-sheet fact that survives the temporal
\* alignment step has duration_quarters 0 and is dated at the period end of
\* its filing, and every value of a wide row comes from such a fact.
C2_InstantAtPeriodEnd ==
    cfg.stmt = "BS" =>
        /\ AfterTemporalFilter =>
               \A r \in LongRows : r.qtrs = "0" /\ r.ddate = r.period
        /\ PivotReturned =>
               \A w \in WideRows : \A c \in DOMAIN w.vals :
                   w.vals[c] # NaN =>
                       \E f \in Sources(w, c) : f.qtrs = "0" /\ f.ddate = f.period

\* C3: every income-statement or cash-flow fact that survives the temporal
\* alignment step is dated at the period end of its filing, has duration 4
\* in an annual filing and 1, 2 or 3 in a quarterly filing; every value of a
\* wide row comes from such a fact.
DurationAligned(f) ==
    /\ f.ddate = f.period
    /\ f.form \in {"10-K", "10-K/A", "10-Q", "10-Q/A"}
    /\ f.form \in {"10-K", "10-K/A"} => f.qtrs = "4"
    /\ f.form \in {"10-Q", "10-Q/A"} => f.qtrs \in {"1", "2", "3"}

C3_DurationAtPeriodEnd ==
    cfg.stmt \in {"IS", "CF"} =>
        /\ AfterTemporalFilter => \A r \in LongRows : DurationAligned(r)
        /\ PivotReturned =>
               \A w \in WideRows : \A c \in DOMAIN w.vals :
                   w.vals[c] # NaN => \E f \in Sources(w, c) : DurationAligned(f)

\* a quarterly filing got a wide row while the input held an annual fact of
\* another duration
C3_Witness ==
    /\ cfg.stmt \in {"IS", "CF"}
    /\ PivotReturned
    /\ \E w \in WideRows : w.id.form = "10-Q"
    /\ \E f \in InputRows : f.form = "10-K" /\ f.qtrs # "4" /\ f.ddate = f.period

\* the unit step: rows of a unit of the table, in order, value times scale
Normalize(rows) ==
    LET InTable(r) == RecognizedScale(r.uom) # 0
        kept == SelectSeq(rows, InTable)
    IN  [i \in 1..Len(kept) |->
            [kept[i] EXCEPT !.value = kept[i].value * RecognizedScale(kept[i].uom)]]

\* C4: the unit step of a monetary transformer keeps exactly the facts whose
\* unit is, case-insensitively, in the multiplier table, with value V*S, and
\* every value of a wide row is V*S of an input fact with a unit of the table.
C4_UnitNormalization ==
    /\ [][IsMonetary(cfg.stmt) /\ pc = "aligned" => long'.rows = Normalize(long.rows)]_vars
    /\ [](IsMonetary(cfg.stmt) /\ PivotReturned =>
            \A w \in WideRows : \A c \in DOMAIN w.vals :
                w.vals[c] # NaN =>
                    \E f \in Sources(w, c) : RecognizedScale(f.uom) # 0)

\* a fact in thousands was scaled into a wide row while a fact in an unlisted
\* unit was in the input
C4_Witness ==
    /\ IsMonetary(cfg.stmt)
    /\ PivotReturned
    /\ \E f \in InputRows : f.uom = <<"E", "U", "R">>
    /\ \E w \in WideRows : \E c \in DOMAIN w.vals :
          \E f \in Sources(w, c) : f.uom = <<"u", "s", "d", "T", "H">> /\ w.vals[c] = 3000

\* C8 (as claimed): the wide table has exactly one row for every filing with
\* a mapped surviving fact, no filing twice, and every cell holds the value
\* of a surviving fact of the filing.
C8_OneRowPerFiling ==
    PivotReturned =>
        /\ {w.id.adsh : w \in WideRows} = {mapped.rows[i].adsh : i \in 1..Len(mapped.rows)}
        /\ \A i, j \in 1..Len(ret.wide.rows) :
               ret.wide.rows[i].id.adsh = ret.wide.rows[j].id.adsh => i = j
        /\ \A w \in WideRows : \A c \in DOMAIN w.vals :
               w.vals[c] # NaN => \E f \in Candidates(w.id.adsh, c) : f.value = w.vals[c]

StripCanon(rows) ==
    [i \in 1..Len(rows) |-> [x \in DOMAIN rows[i] \ {"canon"} |-> rows[i][x]]]

ListedRow(r) == Listed(r.tag)
UnlistedRow(r) == ~Listed(r.tag)

\* C9: the mapping step splits the facts that survived the unit filter into
\* the listed ones, which go to collision resolution, and the others, which
\* are the unknown table that is returned; only listed facts reach a column.
C9_UnknownPartition ==
    /\ [][pc = "normalized" =>
            /\ StripCanon(mapped'.rows) = SelectSeq(long.rows, ListedRow)
            /\ StripCanon(unknown'.rows) = SelectSeq(long.rows, UnlistedRow)]_vars
    /\ [](pc = "done" /\ "canon" \in long.cols /\ cfg.return_unknown =>
            /\ ret.pair
            /\ ret.unknown = unknown
            /\ StripCanon(unknown.rows) = SelectSeq(StripCanon(long.rows), UnlistedRow))
    /\ [](PivotReturned =>
            \A w \in WideRows : \A c \in DOMAIN w.vals :
                w.vals[c] # NaN =>
                    \E f \in Candidates(w.id.adsh, c) : Listed(f.tag) /\ f.value = w.vals[c])

\* listed and unlisted facts of one call: a wide row and an unknown table
C9_Witness ==
    /\ PivotReturned
    /\ cfg.return_unknown
    /\ ret.unknown.rows # <<>>
    /\ \E i \in 1..Len(ret.unknown.rows) : ret.unknown.rows[i].tag = UnmappedTag
    /\ \E r \in LongRows : r.tag = CanonTag(cfg.stmt) /\ r.canon = r.tag

\* C10 (as claimed): a call that ends with no rows returns tables with the
\* column schema of a non-empty result, never tables without columns.
C10_EmptyKeepsSchema ==
    pc = "done" =>
        /\ IdCols \subseteq ret.wide.cols
        /\ ret.pair => (LongCols(cfg.stmt) \cup {"canon"}) \subseteq ret.unknown.cols

-----------------------------------------------------------------------------
(* The gold builders: build_everything_for_zip archive by archive, then    *)
(* build_gold_all.  A frame is [cols, rows]: cols is the sequence of       *)
(* column names in table order, rows a sequence of functions from column   *)
(* name to value.  A column name is <<base, suffixes>>: the base name and  *)
(* the suffixes that merges have appended to it.                           *)

MaxFilings == 2

\* the archives built, in the order of their panel file names
YQS == <<"2020q1", "2020q2">>

Col(c) == <<c, <<>>>>
Suffixed(n, s) == IF s = "" THEN n ELSE <<n[1], Append(n[2], s)>>
NamesOf(cs) == [i \in 1..Len(cs) |-> Col(cs[i])]

\* pd.DataFrame()
EmptyFrame == [cols |-> <<>>, rows |-> <<>>]

\* df.empty
IsEmpty(t) == t.cols = <<>> \/ t.rows = <<>>

HasCol(t, c) == Col(c) \in SeqRange(t.cols)

\* the missing value of a column: text, folded text, ratio or number
NaR == <<0, 0>>
TextCols == {"name", "form", "industry", "source_zip",
             "bs_balanced_flag", "cf_balanced_flag"}
NA(n) ==
    CASE n[1] \in TextCols -> NaS
      [] n[1] \in {"fp", "instance", "ticker"} -> NaU
      [] n[1] = "coverage_score" -> NaR
      [] OTHER -> NaN

\* sort_values puts missing keys last
NaLast(v) == IF v = NaN THEN 1000000 ELSE v

\* df[n] = vals
SetCol(t, n, vals) ==
    [cols |-> IF n \in SeqRange(t.cols) THEN t.cols ELSE Append(t.cols, n),
     rows |-> [i \in 1..Len(t.rows) |->
                  [m \in SeqRange(t.cols) \cup {n} |->
                      IF m = n THEN vals[i] ELSE t.rows[i][m]]]]

\* df[cs]
Project(t, cs) ==
    [cols |-> cs,
     rows |-> [i \in 1..Len(t.rows) |-> [n \in SeqRange(cs) |-> t.rows[i][n]]]]

\* df.drop(columns=[n])
DropCol(t, n) ==
    LET Other(m) == m # n
    IN  Project(t, SelectSeq(t.cols, Other))

RECURSIVE SortedIds(_)
SortedIds(S) ==
    IF S = {} THEN <<>>
    ELSE LET m == CHOOSE x \in S : \A y \in S : x <= y
         IN  <<m>> \o SortedIds(S \ {m})

\* df.loc[:, ~df.columns.duplicated()]
_dedup_cols(t) ==
    IF IsEmpty(t) THEN t
    ELSE LET First(i) == \A j \in 1..(i - 1) : t.cols[j] # t.cols[i]
             keep == SortedIds({i \in 1..Len(t.cols) : First(i)})
         IN  Project(t, [k \in 1..Len(keep) |-> t.cols[keep[k]]])

-----------------------------------------------------------------------------
(* Silver tables of one archive *)

\* the members load_fsds_from_zip looks for in the archive
Members == {"sub", "pre", "num", "tag"}

\* archives: complete, or with one member missing
Archives == {m \in SUBSET Members : Cardinality(m) >= 3}

\* the error load_fsds_from_zip raises, "" when it returns the tables
load_fsds_from_zip(m) ==
    IF \E key \in Members : key \notin m THEN "FileNotFoundError" ELSE ""

\* the columns requested from the submissions table that the pipeline reads
\* by name; fye, accepted, countryba and stprba are carried like instance
SubCols == <<"adsh", "cik", "name", "form", "fy", "fp", "period", "filed", "sic",
             "instance">>

\* columns an archive's submissions table may lack
SubShapes == {{}, {"instance"}, {"sic"}}

\* usecols = [c for c in wanted_cols if c in actual_cols]
_read_member(absent) ==
    LET Actual(c) == c \notin absent
    IN  SelectSeq(SubCols, Actual)

SubRow(a, cols) == [n \in SeqRange(NamesOf(cols)) |-> Filings[a][n[1]]]

\* distinct filings in any file order
FilingSeqs ==
    {s \in SeqsUpTo(DOMAIN Filings, MaxFilings) :
        \A i, j \in 1..Len(s) : s[i] = s[j] => i = j}

\* submissions tables as loaded: the columns present, the filings
SubTables == [cols : {_read_member(absent) : absent \in SubShapes}, ids : FilingSeqs]

NoSub == [cols |-> <<>>, ids |-> <<>>]
NoZip == [yq |-> 0, members |-> {}, error |-> ""]

Absent(s) == SeqRange(SubCols) \ SeqRange(s.cols)

extract_metadata(s, forms, fp) ==
    LET Mask(a) == /\ Filings[a].form \in forms
                   /\ fp # FpNone => Upper(AsStr(Filings[a].fp)) = Upper(fp)
        hit == SelectSeq(s.ids, Mask)
        idx == KeepFirst([i \in 1..Len(hit) |->
                   [k |-> <<IF Filings[hit[i]].filed = NaN THEN 1000000
                            ELSE 0 - Filings[hit[i]].filed,
                            NaLast(Filings[hit[i]].cik), NaLast(Filings[hit[i]].fy)>>,
                    d |-> SubRow(hit[i], s.cols),
                    r |-> SubRow(hit[i], s.cols)]])
    IN  [cols |-> NamesOf(s.cols), rows |-> Rows(StableSort(idx))]

_latest_per_cik_fy_KeepFirst(t) ==
    IF IsEmpty(t) THEN t
    ELSE IF ~({Col("cik"), Col("fy"), Col("filed")} \subseteq SeqRange(t.cols)) THEN t
    ELSE [cols |-> t.cols,
          rows |-> Rows(KeepFirst(StableSort([i \in 1..Len(t.rows) |->
                      [k |-> <<NaLast(t.rows[i][Col("cik")]), NaLast(t.rows[i][Col("fy")]),
                               NaLast(t.rows[i][Col("filed")])>>,
                       d |-> <<t.rows[i][Col("cik")], t.rows[i][Col("fy")]>>,
                       r |-> t.rows[i]]])))]

\* sort_values(["cik","fy","filed"]).drop_duplicates(["cik","fy"], keep="last")
_latest_per_cik_fy(t) ==
    IF IsEmpty(t) THEN t
    ELSE IF ~({Col("cik"), Col("fy"), Col("filed")} \subseteq SeqRange(t.cols)) THEN t
    ELSE [cols |-> t.cols,
          rows |-> Rows(KeepLast(StableSort([i \in 1..Len(t.rows) |->
                      [k |-> <<NaLast(t.rows[i][Col("cik")]), NaLast(t.rows[i][Col("fy")]),
                               NaLast(t.rows[i][Col("filed")])>>,
                       d |-> <<t.rows[i][Col("cik")], t.rows[i][Col("fy")]>>,
                       r |-> t.rows[i]]])))]

\* str.split(ch)[0]
Before(t, ch) ==
    LET at == {i \in 1..Len(t) : t[i] = ch}
    IN  IF at = {} THEN t
        ELSE SubSeq(t, 1, (CHOOSE i \in at : \A j \in at : i <= j) - 1)

\* str.strip()
Strip(t) ==
    LET ink == {i \in 1..Len(t) : t[i] # " "}
    IN  IF ink = {} THEN <<>>
        ELSE SubSeq(t, CHOOSE i \in ink : \A j \in ink : i <= j,
                       CHOOSE i \in ink : \A j \in ink : i >= j)

IsAlpha(c) ==
    c \in {"U", "S", "D", "T", "H", "M", "E", "R", "F", "Y", "Q", "N", "A", "I", "L", "O"}

\* the prefix of the instance document name, when it is one to five letters
ticker_from_instance(instance) ==
    IF instance = NaU THEN NaU
    ELSE LET cand == Upper(Strip(Before(Before(instance, "."), "-")))
         IN  IF Len(cand) >= 1 /\ Len(cand) <= 5 /\ \A i \in 1..Len(cand) : IsAlpha(cand[i])
             THEN cand
             ELSE NaU

\* the metadata table of the archive; an empty filings index is returned
\* before anything is written.  The industry lookup is keyed by integers and
\* the sic column is text, so no code is found; there is no SEC ticker file,
\* so the ticker is the one inferred from the instance document name.
transform_metadata_to_wide(s) ==
    LET idx == extract_metadata(s, {"10-K", "10-K/A"}, FY)
        n == Len(idx.rows)
        Inferred(i) == IF HasCol(idx, "instance")
                       THEN ticker_from_instance(idx.rows[i][Col("instance")])
                       ELSE NaU
    IN  IF IsEmpty(idx) THEN EmptyFrame
        ELSE _latest_per_cik_fy(
                 SetCol(SetCol(idx, Col("industry"), [i \in 1..n |-> "Unknown"]),
                        Col("ticker"), [i \in 1..n |-> Inferred(i)]))

\* index columns of the pivot, then the canonical fields in sorted order
WideIdx == <<"adsh", "cik", "name", "form", "fy", "fp", "filed", "period", "sic">>

ReportedCols(stmt) ==
    CASE stmt = "BS" -> <<"ShareholdersEquity", "TotalAssets", "TotalLiabilities">>
      [] stmt = "IS" -> <<"NetIncome", "Revenue">>
      [] stmt = "CF" -> <<"CFF", "CFI", "CFO">>
      [] stmt = "SH" -> <<"CommonSharesOutstanding">>

\* the value every filing reports for a canonical field
Reported(c) ==
    CASE c = "TotalAssets" -> 5 [] c = "TotalLiabilities" -> 3
      [] c = "ShareholdersEquity" -> 2 [] c = "Revenue" -> 9 [] c = "NetIncome" -> 1
      [] c = "CFO" -> 4 [] c = "CFI" -> 0 - 3 [] c = "CFF" -> 0 - 1
      [] c = "CommonSharesOutstanding" -> 7

\* the wide table a statement transformer writes when every filing of the
\* archive reports the statement: one row per filing the extractor and the
\* form filter admit and whose index columns are all present, by adsh; a
\* transformer left with no row returns before writing
SilverWide(stmt, s) ==
    LET InSub(c) == c \in SeqRange(s.cols)
        index_cols == SelectSeq(WideIdx, InSub)
        ok == {a \in SeqRange(s.ids) :
                  /\ Filings[a].form \in ExtractorForms(stmt) \cap ALL_FORMS
                  /\ \A c \in SeqRange(index_cols) : Filings[a][c] # NA(Col(c))}
        ids == SortedIds(ok)
        cols == NamesOf(index_cols \o ReportedCols(stmt))
    IN  IF ok = {} THEN EmptyFrame
        ELSE [cols |-> cols,
              rows |-> [i \in 1..Len(ids) |->
                           [n \in SeqRange(cols) |->
                               IF n[1] \in IdCols THEN Filings[ids[i]][n[1]]
                               ELSE Reported(n[1])]]]

-----------------------------------------------------------------------------
(* pd.merge(left, right, on="adsh", how=..., suffixes=...) *)

Overlap(l, r) == (SeqRange(l.cols) \cap SeqRange(r.cols)) \ {Col("adsh")}

Rename(n, l, r, s) == IF n \in Overlap(l, r) THEN Suffixed(n, s) ELSE n

MergedCols(l, r, sfx) ==
    LET NotKey(n) == n # Col("adsh")
        rc == SelectSeq(r.cols, NotKey)
    IN  [i \in 1..Len(l.cols) |-> Rename(l.cols[i], l, r, sfx[1])]
        \o [i \in 1..Len(rc) |-> Rename(rc[i], l, r, sfx[2])]

\* overlapping columns with two empty suffixes, or suffixes that make two
\* columns of the result carry one name
MergeRaises(l, r, sfx) ==
    \/ Overlap(l, r) # {} /\ sfx = <<"", "">>
    \/ LET mc == MergedCols(l, r, sfx)
       IN  \E i, j \in 1..Len(mc) : i # j /\ mc[i] = mc[j]

\* lrow and rrow hold the matching row of each side, or nothing
MergeRow(l, r, sfx, lrow, rrow, key) ==
    [m \in SeqRange(MergedCols(l, r, sfx)) |->
        IF m = Col("adsh") THEN key
        ELSE LET ls == {n \in SeqRange(l.cols) : Rename(n, l, r, sfx[1]) = m}
                 rs == {n \in SeqRange(r.cols) \ {Col("adsh")} :
                           Rename(n, l, r, sfx[2]) = m}
             IN  IF ls # {}
                 THEN LET n == CHOOSE x \in ls : TRUE
                      IN  IF lrow = <<>> THEN NA(n) ELSE lrow[1][n]
                 ELSE LET n == CHOOSE x \in rs : TRUE
                      IN  IF rrow = <<>> THEN NA(n) ELSE rrow[1][n]]

Matches(t, key) ==
    LET Hit(x) == x[Col("adsh")] = key
    IN  SelectSeq(t.rows, Hit)

RECURSIVE LeftRows(_, _, _, _)
\* how="left": the left rows in order, each with every match on the right
LeftRows(lrows, l, r, sfx) ==
    IF lrows = <<>> THEN <<>>
    ELSE LET x == Head(lrows)
             key == x[Col("adsh")]
             ms == Matches(r, key)
         IN  (IF ms = <<>> THEN <<MergeRow(l, r, sfx, <<x>>, <<>>, key)>>
              ELSE [j \in 1..Len(ms) |-> MergeRow(l, r, sfx, <<x>>, <<ms[j]>>, key)])
             \o LeftRows(Tail(lrows), l, r, sfx)

RECURSIVE OuterRows(_, _, _, _)
\* how="outer": the union of the keys in sorted order
OuterRows(keys, l, r, sfx) ==
    IF keys = <<>> THEN <<>>
    ELSE LET key == Head(keys)
             lm == Matches(l, key)
             rm == Matches(r, key)
         IN  (IF lm = <<>>
              THEN [j \in 1..Len(rm) |-> MergeRow(l, r, sfx, <<>>, <<rm[j]>>, key)]
              ELSE IF rm = <<>>
              THEN [i \in 1..Len(lm) |-> MergeRow(l, r, sfx, <<lm[i]>>, <<>>, key)]
              ELSE [p \in 1..(Len(lm) * Len(rm)) |->
                       MergeRow(l, r, sfx, <<lm[((p - 1) \div Len(rm)) + 1]>>,
                                <<rm[((p - 1) % Len(rm)) + 1]>>, key)])
             \o OuterRows(Tail(keys), l, r, sfx)

merge(l, r, how, sfx) ==
    [cols |-> MergedCols(l, r, sfx),
     rows |-> IF how = "left" THEN LeftRows(l.rows, l, r, sfx)
              ELSE OuterRows(SortedIds({l.rows[i][Col("adsh")] : i \in 1..Len(l.rows)}
                                 \cup {r.rows[i][Col("adsh")] : i \in 1..Len(r.rows)}),
                             l, r, sfx)]

-----------------------------------------------------------------------------
(* build_gold_zip *)

Fill0(v) == IF v = NaN THEN 0 ELSE v
Flag(b) == IF b THEN "True" ELSE "False"

KeyCols == <<"TotalAssets", "TotalLiabilities", "ShareholdersEquity",
             "Revenues", "OperatingIncomeLoss", "NetIncomeLoss",
             "CFO", "CFI", "CFF",
             "CommonSharesOutstanding", "WASOBasic", "WASODiluted">>

WithinTolerance_Strict(v) == v < 1000

\* <= 1_000
WithinTolerance(v) == v <= 1000

\* has is the column index as it was on entry; a flag column the table
\* already has is overwritten in place
_qc_flags(t) ==
    LET n == Len(t.rows)
        Val(i, c) == t.rows[i][Col(c)]
        bs == HasCol(t, "TotalAssets") /\ HasCol(t, "TotalLiabilities")
                  /\ HasCol(t, "ShareholdersEquity")
        rhs(i) == Fill0(Val(i, "TotalLiabilities")) + Fill0(Val(i, "ShareholdersEquity"))
                  + (IF HasCol(t, "TemporaryEquity")
                     THEN Fill0(Val(i, "TemporaryEquity")) ELSE 0)
        bs_diff(i) == IF Val(i, "TotalAssets") = NaN THEN NaN
                      ELSE Abs(Val(i, "TotalAssets") - rhs(i))
        cf == HasCol(t, "CFO") /\ HasCol(t, "CFI") /\ HasCol(t, "CFF")
        delta(i) == Fill0(Val(i, "CFO")) + Fill0(Val(i, "CFI")) + Fill0(Val(i, "CFF"))
        Present(c) == HasCol(t, c)
        key_cols == SelectSeq(KeyCols, Present)
        assigned == (IF bs THEN <<Col("bs_diff"), Col("bs_balanced_flag")>>
                     ELSE <<Col("bs_balanced_flag")>>)
                    \o (IF cf THEN <<Col("cf_delta_abs"), Col("cf_balanced_flag")>>
                        ELSE <<Col("cf_balanced_flag")>>)
                    \o <<Col("coverage_score")>>
        New(m) == m \notin SeqRange(t.cols)
        cols == t.cols \o SelectSeq(assigned, New)
        Value(i, m) ==
            CASE m = Col("bs_diff") /\ bs -> bs_diff(i)
              [] m = Col("bs_balanced_flag") ->
                     IF bs THEN Flag(bs_diff(i) # NaN /\ WithinTolerance(bs_diff(i))) ELSE NaS
              [] m = Col("cf_delta_abs") /\ cf -> Abs(delta(i))
              [] m = Col("cf_balanced_flag") ->
                     IF cf THEN Flag(WithinTolerance(Abs(delta(i)))) ELSE NaS
              [] m = Col("coverage_score") ->
                     IF key_cols # <<>>
                     THEN <<Cardinality({k \in 1..Len(key_cols) :
                                Val(i, key_cols[k]) # NA(Col(key_cols[k]))}),
                            Len(key_cols)>>
                     ELSE NaR
              [] OTHER -> t.rows[i][m]
    IN  [cols |-> cols,
         rows |-> [i \in 1..n |-> [m \in SeqRange(cols) |-> Value(i, m)]]]

\* the identifier columns a statement table gives up before it is joined
DropCols == {Col(c) : c \in {"cik", "fy", "filed", "period", "name", "sic"}}

\* part[["adsh"] + non_id_cols]
NonIdPart(part) ==
    LET NonId(n) == n \notin DropCols /\ n # Col("adsh")
    IN  Project(part, <<Col("adsh")>> \o SelectSeq(part.cols, NonId))

\* d[["adsh","cik","fy","filed","period","name","sic"]].drop_duplicates(subset=["adsh"])
FallbackIds(d) ==
    LET ids == Project(d, NamesOf(<<"adsh", "cik", "fy", "filed", "period", "name", "sic">>))
    IN  [cols |-> ids.cols,
         rows |-> Rows(KeepFirst([i \in 1..Len(ids.rows) |->
                      [k |-> <<>>, d |-> ids.rows[i][Col("adsh")], r |-> ids.rows[i]]]))]

\* the six identifier columns filled from their _dup twins, the twins dropped
Coalesce(df) ==
    LET Ids == {Col(c) : c \in {"cik", "fy", "filed", "period", "name", "sic"}}
        Twin(n) == \E c \in Ids : n = Suffixed(c, "_dup")
        Kept(n) == ~Twin(n)
        cols == SelectSeq(df.cols, Kept)
    IN  [cols |-> cols,
         rows |-> [i \in 1..Len(df.rows) |->
                      [n \in SeqRange(cols) |->
                          IF n \in Ids /\ Suffixed(n, "_dup") \in SeqRange(df.cols)
                                /\ df.rows[i][n] = NA(n)
                          THEN df.rows[i][Suffixed(n, "_dup")]
                          ELSE df.rows[i][n]]]]

-----------------------------------------------------------------------------
(* build_gold_all *)

RECURSIVE UnionCols(_)
\* the columns of the frames in order of first appearance
UnionCols(dfs) ==
    IF dfs = <<>> THEN <<>>
    ELSE LET rest == UnionCols(SubSeq(dfs, 1, Len(dfs) - 1))
             New(n) == n \notin SeqRange(rest)
         IN  rest \o SelectSeq(dfs[Len(dfs)].cols, New)

RECURSIVE StackRows(_, _)
StackRows(dfs, cols) ==
    IF dfs = <<>> THEN <<>>
    ELSE LET d == Head(dfs)
         IN  [i \in 1..Len(d.rows) |->
                 [n \in cols |-> IF n \in SeqRange(d.cols) THEN d.rows[i][n] ELSE NA(n)]]
             \o StackRows(Tail(dfs), cols)

\* pd.concat(dfs, axis=0, ignore_index=True)
concat(dfs) ==
    [cols |-> UnionCols(dfs), rows |-> StackRows(dfs, SeqRange(UnionCols(dfs)))]

\* the order in which a pass of the pipeline is given the archives: the
\* first pass oldest first, the second pass newest first
Processing(r) ==
    [k \in 1..Len(YQS) |-> IF r = 1 THEN k ELSE Len(YQS) + 1 - k]

\* the panel files in the order in which they were written
GoldFiles_AsProcessed ==
    LET Exists(i) == gold[i].exists
        idx == SelectSeq(Processing(run), Exists)
    IN  [k \in 1..Len(idx) |-> gold[idx[k]].df]

\* the per-archive panel files that exist, in file-name order
GoldFiles ==
    LET idx == SortedIds({i \in 1..Len(YQS) : gold[i].exists})
    IN  [k \in 1..Len(idx) |-> gold[idx[k]].df]

build_gold_all(dfs) ==
    IF dfs = <<>> THEN EmptyFrame
    ELSE LET panel == _qc_flags(concat(dfs))
             IsId(n) == n \in SeqRange(panel.cols)
             id_cols == SelectSeq(NamesOf(<<"adsh", "cik", "name", "form", "fy", "fp",
                                            "period", "filed", "sic", "industry",
                                            "source_zip">>), IsId)
             Other(n) == n \notin SeqRange(id_cols)
         IN  [cols |-> id_cols \o SelectSeq(panel.cols, Other), rows |-> panel.rows]

-----------------------------------------------------------------------------
(* The archive-by-archive build *)

NoCall == [built |-> FALSE, raised |-> FALSE, k |-> 0, df |-> EmptyFrame,
           joined |-> EmptyFrame, panel |-> EmptyFrame]
NoSilver == [bs |-> EmptyFrame, is_ |-> EmptyFrame, cf |-> EmptyFrame,
             sh |-> EmptyFrame, meta |-> EmptyFrame]

InitGold ==
    /\ pc = "idle"
    /\ cfg = <<>>
    /\ tag_map = <<>>
    /\ input = EmptyDF
    /\ long = EmptyDF
    /\ unknown = EmptyDF
    /\ mapped = EmptyDF
    /\ ret = NoRet
    /\ run = 1
    /\ first = NoFirst
    /\ out_file = NoFile
    /\ gpc = "statements"
    /\ yq = 1
    /\ zip = NoZip
    /\ sub = NoSub
    /\ archived = {}
    /\ silver = NoSilver
    /\ call = NoCall
    /\ gold = [i \in 1..Len(YQS) |-> [exists |-> FALSE, df |-> EmptyFrame]]
    /\ master = EmptyFrame

\* build_everything_for_zip returns or raises
Return == gpc' = "returned" /\ UNCHANGED yq

\* the transformers in the order build_everything_for_zip calls them
Stages == <<"BS", "IS", "CF", "SH">>

\* a column read by name is not in the submissions table: the balance-sheet
\* and income-statement extractors select their metadata columns once the
\* presentation table has tags of the statement, the cash-flow extractor
\* keeps the columns present, the shares transformer selects its columns
\* before anything else
KeyError(stmt, s, has) ==
    CASE stmt = "BS" -> "BS" \in has /\ Absent(s) \cap {"sic", "instance"} # {}
      [] stmt = "IS" -> "IS" \in has /\ "sic" \in Absent(s)
      [] stmt = "CF" -> FALSE
      [] stmt = "SH" -> "sic" \in Absent(s)

\* the first transformer that raises, 0 when none does
Failing(s, has) ==
    LET bad == {k \in 1..Len(Stages) : KeyError(Stages[k], s, has)}
    IN  IF bad = {} THEN 0 ELSE CHOOSE k \in bad : \A j \in bad : k <= j

\* the filings of the archive that the extractor of the statement and the
\* form filter of its transformer admit
Admitted(stmt, s) ==
    {a \in SeqRange(s.ids) : Filings[a].form \in ExtractorForms(stmt) \cap ALL_FORMS}

\* the silver file of the k-th transformer after the call: written when the
\* transformer is reached, the archive reports the statement and a row is
\* left to pivot; a transformer that returns early or is not reached leaves
\* the path as it was
Written(k, s, has, old) ==
    IF /\ Failing(s, has) = 0 \/ k < Failing(s, has)
       /\ Stages[k] \in has
       /\ Admitted(Stages[k], s) # {}
    THEN SilverWide(Stages[k], s)
    ELSE old

\* the four statement transformers write the silver tables of the archive;
\* a filing is in one archive only
LoadFails(m) ==
    /\ load_fsds_from_zip(m) # ""
    /\ zip' = [yq |-> yq, members |-> m, error |-> load_fsds_from_zip(m)]
    /\ sub' = NoSub
    /\ UNCHANGED <<silver, archived>>
    /\ Return

Transforms(s, has) ==
    /\ load_fsds_from_zip(Members) = ""
    /\ SeqRange(s.ids) \cap archived = {}
    /\ zip' = [yq |-> yq, members |-> Members,
               error |-> IF Failing(s, has) = 0 THEN "" ELSE "KeyError"]
    /\ sub' = s
    /\ archived' = archived \cup SeqRange(s.ids)
    /\ silver' = [bs |-> Written(1, s, has, silver.bs),
                  is_ |-> Written(2, s, has, silver.is_),
                  cf |-> Written(3, s, has, silver.cf),
                  sh |-> Written(4, s, has, silver.sh),
                  meta |-> silver.meta]
    /\ IF Failing(s, has) = 0
       THEN gpc' = "metadata" /\ UNCHANGED yq
       ELSE Return

TransformStatements ==
    /\ gpc = "statements"
    /\ \/ \E m \in Archives : LoadFails(m)
       \/ \E s \in SubTables, has \in SUBSET {"BS", "IS", "CF", "SH"} : Transforms(s, has)
    /\ call' = NoCall
    /\ UNCHANGED <<silver_vars, gold, master>>

TransformMetadata ==
    /\ gpc = "metadata"
    /\ silver' = [silver EXCEPT !.meta = IF IsEmpty(transform_metadata_to_wide(sub))
                                         THEN silver.meta
                                         ELSE transform_metadata_to_wide(sub)]
    /\ gpc' = "gold"
    /\ UNCHANGED <<silver_vars, yq, zip, sub, archived, call, gold, master>>

\* dfs = [d for d in [bs, is_, cf, sh] if not d.empty]
Dfs ==
    LET NonEmpty(d) == ~IsEmpty(d)
    IN  SelectSeq(<<silver.bs, silver.is_, silver.cf, silver.sh>>, NonEmpty)

\* build_gold_zip up to the choice of the starting frame: the metadata, or
\* the first statement table, or an empty panel written at once
GoldStart ==
    /\ gpc = "gold"
    /\ IF ~IsEmpty(_dedup_cols(silver.meta))
       THEN /\ call' = [call EXCEPT !.df = _dedup_cols(silver.meta), !.k = 1]
            /\ gpc' = "parts"
            /\ UNCHANGED <<yq, gold>>
       ELSE IF Dfs = <<>>
       THEN /\ call' = [call EXCEPT !.built = TRUE]
            /\ gold' = [gold EXCEPT ![yq] = [exists |-> TRUE, df |-> EmptyFrame]]
            /\ Return
       ELSE /\ call' = [call EXCEPT !.df = Dfs[1], !.k = 2]
            /\ gpc' = "fallback"
            /\ UNCHANGED <<yq, gold>>
    /\ UNCHANGED <<silver_vars, zip, sub, archived, silver, master>>

\* one turn of the loop over dfs[1:]
GoldFallbackMerge ==
    /\ gpc = "fallback"
    /\ call.k <= Len(Dfs)
    /\ IF MergeRaises(call.df, FallbackIds(Dfs[call.k]), <<"", "_dup">>)
       THEN /\ call' = [call EXCEPT !.raised = TRUE, !.joined = call.df]
            /\ Return
       ELSE /\ call' = [call EXCEPT
                            !.df = merge(call.df, FallbackIds(Dfs[call.k]), "outer",
                                         <<"", "_dup">>),
                            !.k = call.k + 1]
            /\ UNCHANGED <<gpc, yq>>
    /\ UNCHANGED <<silver_vars, zip, sub, archived, silver, gold, master>>

GoldCoalesce ==
    /\ gpc = "fallback"
    /\ call.k > Len(Dfs)
    /\ call' = [call EXCEPT !.df = Coalesce(call.df), !.k = 1]
    /\ gpc' = "parts"
    /\ UNCHANGED <<silver_vars, yq, zip, sub, archived, silver, gold, master>>

Parts == <<silver.bs, silver.is_, silver.cf>>

\* one turn of the loop over [bs, is_, cf]; a merge that raises ends the call
\* with no panel written
GoldJoinPart ==
    /\ gpc = "parts"
    /\ call.k <= Len(Parts)
    /\ IF IsEmpty(Parts[call.k])
       THEN /\ call' = [call EXCEPT !.k = call.k + 1]
            /\ UNCHANGED <<gpc, yq>>
       ELSE IF MergeRaises(call.df, NonIdPart(_dedup_cols(Parts[call.k])), <<"", "">>)
       THEN /\ call' = [call EXCEPT !.raised = TRUE, !.joined = call.df]
            /\ Return
       ELSE /\ call' = [call EXCEPT
                            !.df = merge(call.df, NonIdPart(_dedup_cols(Parts[call.k])),
                                         "outer", <<"", "">>),
                            !.k = call.k + 1]
            /\ UNCHANGED <<gpc, yq>>
    /\ UNCHANGED <<silver_vars, zip, sub, archived, silver, gold, master>>

SharesHow_Outer == "outer"

\* pd.merge(df, sh[keep], on="adsh", how="left")
SharesHow == "left"

\* the left join of the shares table; joined is the frame handed to the
\* deduplication
GoldJoinShares ==
    /\ gpc = "parts"
    /\ call.k > Len(Parts)
    /\ LET df == IF IsEmpty(silver.sh) THEN call.df
                 ELSE merge(call.df, NonIdPart(_dedup_cols(silver.sh)), SharesHow,
                            <<"_x", "_y">>)
       IN  call' = [call EXCEPT !.df = df, !.joined = df]
    /\ gpc' = "dedup"
    /\ UNCHANGED <<silver_vars, yq, zip, sub, archived, silver, gold, master>>

GoldDedup ==
    /\ gpc = "dedup"
    /\ call' = [call EXCEPT !.df = _latest_per_cik_fy(call.df)]
    /\ gpc' = "stamp"
    /\ UNCHANGED <<silver_vars, yq, zip, sub, archived, silver, gold, master>>

GoldStamp ==
    /\ gpc = "stamp"
    /\ call' = [call EXCEPT
                    !.df = _dedup_cols(SetCol(call.df, Col("source_zip"),
                                              [i \in 1..Len(call.df.rows) |-> YQS[yq]]))]
    /\ gpc' = "flags"
    /\ UNCHANGED <<silver_vars, yq, zip, sub, archived, silver, gold, master>>

GoldWrite ==
    /\ gpc = "flags"
    /\ call' = [call EXCEPT !.built = TRUE, !.df = _qc_flags(call.df),
                            !.panel = _qc_flags(call.df)]
    /\ gold' = [gold EXCEPT ![yq] = [exists |-> TRUE, df |-> _qc_flags(call.df)]]
    /\ Return
    /\ UNCHANGED <<silver_vars, zip, sub, archived, silver, master>>

\* the build goes on to the next archive, whose tables are yet to be
\* written, or to the master panel after the last one
NextArchive ==
    /\ gpc = "returned"
    /\ IF yq < Len(YQS)
       THEN gpc' = "statements" /\ yq' = yq + 1
       ELSE gpc' = "all" /\ UNCHANGED yq
    /\ zip' = NoZip
    /\ sub' = NoSub
    /\ silver' = NoSilver
    /\ call' = NoCall
    /\ UNCHANGED <<silver_vars, archived, gold, master>>

BuildGoldAll ==
    /\ gpc = "all"
    /\ master' = build_gold_all(GoldFiles)
    /\ gpc' = "done"
    /\ UNCHANGED <<silver_vars, yq, zip, sub, archived, silver, call, gold>>

NextGold ==
    \/ TransformStatements
    \/ TransformMetadata
    \/ GoldStart
    \/ GoldFallbackMerge
    \/ GoldCoalesce
    \/ GoldJoinPart
    \/ GoldJoinShares
    \/ GoldDedup
    \/ GoldStamp
    \/ GoldWrite
    \/ NextArchive
    \/ BuildGoldAll

SpecGold == InitGold /\ [][NextGold]_vars

-----------------------------------------------------------------------------
(* gen_yqs: the list of quarters to build                                  *)

\* the longest list the loop is followed for
MaxLabels == 10

YqsYears == {2020, 2021}

\* f"{y}q{q}"
Label(y, q) == <<y, "q", q>>

InitYqs ==
    /\ pc = "idle"
    /\ cfg = <<>>
    /\ tag_map = <<>>
    /\ input = EmptyDF
    /\ long = EmptyDF
    /\ unknown = EmptyDF
    /\ mapped = EmptyDF
    /\ ret = NoRet
    /\ run = 1
    /\ first = NoFirst
    /\ out_file = NoFile
    /\ gpc = "loop"
    /\ yq = 0
    /\ zip = NoZip
    /\ sub = NoSub
    /\ archived = {}
    /\ silver = NoSilver
    /\ \E start \in YqsYears \X (1..4), end \in YqsYears \X (1..4) :
          call = [start |-> start, end |-> end, y |-> start[1], q |-> start[2],
                  ye |-> end[1], qe |-> end[2], out |-> <<>>]
    /\ gold = <<>>
    /\ master = EmptyFrame

\* one pass through the body of while True: the label is appended, the loop
\* is left when the end quarter has been appended, otherwise the quarter
\* steps down by one
Iterate ==
    /\ gpc = "loop"
    /\ Len(call.out) < MaxLabels
    /\ IF call.y = call.ye /\ call.q = call.qe
       THEN /\ call' = [call EXCEPT !.out = Append(call.out, Label(call.y, call.q))]
            /\ gpc' = "returned"
       ELSE /\ call' = [call EXCEPT !.out = Append(call.out, Label(call.y, call.q)),
                                    !.y = IF call.q = 1 THEN call.y - 1 ELSE call.y,
                                    !.q = IF call.q = 1 THEN 4 ELSE call.q - 1]
            /\ UNCHANGED gpc
    /\ UNCHANGED <<silver_vars, yq, zip, sub, archived, silver, gold, master>>

NextYqs == Iterate

SpecYqs == InitYqs /\ [][NextYqs]_vars

\* the loop is straight-line code: an iteration that can run does run
SpecYqsFair == SpecYqs /\ WF_vars(Iterate)

\* quarters counted from year 0
QuarterNo(y, q) == 4 * y + q

\* the quarter of a label lies between the start and the end quarter
Between(l) ==
    LET n == QuarterNo(l[1], l[3])
        s == QuarterNo(call.start[1], call.start[2])
        e == QuarterNo(call.ye, call.qe)
    IN  (s <= n /\ n <= e) \/ (e <= n /\ n <= s)

\* C30: gen_yqs terminates for every start and end with quarters in 1..4,
\* whichever of the two is the later quarter, and the labels it collects are
\* those from start to end: the call returns, and no label of a quarter
\* outside the span of start and end is ever appended.
C30_Terminates ==
    /\ <>(gpc = "returned")
    /\ [](\A i \in 1..Len(call.out) : Between(call.out[i]))

-----------------------------------------------------------------------------
(* The same archives processed in two orders                               *)

MaxOrderFilings == 1

OrderFilingSeqs ==
    {s \in SeqsUpTo({1, 2, 3}, MaxOrderFilings) :
        \A i, j \in 1..Len(s) : s[i] = s[j] => i = j}

\* an archive on disk: its members, its submissions table, the statements
\* its presentation table reports
OrderArchives ==
    [members : {Members},
     sub : [cols : {_read_member({})}, ids : OrderFilingSeqs],
     has : {{}, {"SH"}, {"CF", "SH"}}]
    \cup {[members |-> Members \ {"tag"}, sub |-> NoSub, has |-> {}]}

\* one archive per quarter, a filing in one archive only
OnDisk ==
    {d \in [1..Len(YQS) -> OrderArchives] :
        \A i, j \in 1..Len(YQS) :
            i # j => SeqRange(d[i].sub.ids) \cap SeqRange(d[j].sub.ids) = {}}

InitOrder ==
    /\ pc = "idle"
    /\ cfg = <<>>
    /\ tag_map = <<>>
    /\ input \in OnDisk
    /\ long = EmptyDF
    /\ unknown = EmptyDF
    /\ mapped = EmptyDF
    /\ ret = NoRet
    /\ run = 1
    /\ first = NoFirst
    /\ out_file = NoFile
    /\ gpc = "statements"
    /\ yq = Processing(1)[1]
    /\ zip = NoZip
    /\ sub = NoSub
    /\ archived = {}
    /\ silver = NoSilver
    /\ call = NoCall
    /\ gold = [i \in 1..Len(YQS) |-> [exists |-> FALSE, df |-> EmptyFrame]]
    /\ master = EmptyFrame

\* the four statement transformers on the archive of the quarter
TransformArchive ==
    /\ gpc = "statements"
    /\ IF load_fsds_from_zip(input[yq].members) # ""
       THEN LoadFails(input[yq].members)
       ELSE Transforms(input[yq].sub, input[yq].has)
    /\ call' = NoCall
    /\ UNCHANGED <<silver_vars, gold, master>>

\* the build goes on to the next archive of the pass, or to the master panel
NextInOrder ==
    /\ gpc = "returned"
    /\ LET k == CHOOSE i \in 1..Len(YQS) : Processing(run)[i] = yq
       IN  IF k < Len(YQS)
           THEN gpc' = "statements" /\ yq' = Processing(run)[k + 1]
           ELSE gpc' = "all" /\ UNCHANGED yq
    /\ zip' = NoZip
    /\ sub' = NoSub
    /\ silver' = NoSilver
    /\ call' = NoCall
    /\ UNCHANGED <<silver_vars, archived, gold, master>>

\* the second pass: the same archives, no silver or gold file yet, the master
\* panel of the first pass kept for comparison
Reprocess ==
    /\ gpc = "done"
    /\ run = 1
    /\ run' = 2
    /\ first' = [ret |-> NoRet, file |-> master]
    /\ gold' = [i \in 1..Len(YQS) |-> [exists |-> FALSE, df |-> EmptyFrame]]
    /\ master' = EmptyFrame
    /\ archived' = {}
    /\ yq' = Processing(2)[1]
    /\ gpc' = "statements"
    /\ UNCHANGED <<pc, cfg, tag_map, input, long, unknown, mapped, ret, out_file,
                   zip, sub, silver, call>>

NextOrder ==
    \/ TransformArchive
    \/ TransformMetadata
    \/ GoldStart
    \/ GoldFallbackMerge
    \/ GoldCoalesce
    \/ GoldJoinPart
    \/ GoldJoinShares
    \/ GoldDedup
    \/ GoldStamp
    \/ GoldWrite
    \/ NextInOrder
    \/ BuildGoldAll
    \/ Reprocess

SpecOrder == InitOrder /\ [][NextOrder]_vars

-----------------------------------------------------------------------------
(* build_everything_for_zip called twice for one quarter                   *)

\* the archive of the quarter as the first and as the second call find it
InitStale ==
    /\ pc = "idle"
    /\ cfg = <<>>
    /\ tag_map = <<>>
    /\ input \in [1..2 -> OrderArchives]
    /\ long = EmptyDF
    /\ unknown = EmptyDF
    /\ mapped = EmptyDF
    /\ ret = NoRet
    /\ run = 1
    /\ first = NoFirst
    /\ out_file = NoFile
    /\ gpc = "statements"
    /\ yq = 1
    /\ zip = NoZip
    /\ sub = NoSub
    /\ archived = {}
    /\ silver = NoSilver
    /\ call = NoCall
    /\ gold = [i \in 1..Len(YQS) |-> [exists |-> FALSE, df |-> EmptyFrame]]
    /\ master = EmptyFrame

\* the four statement transformers on the archive as this call finds it
TransformCall ==
    /\ gpc = "statements"
    /\ IF load_fsds_from_zip(input[run].members) # ""
       THEN LoadFails(input[run].members)
       ELSE Transforms(input[run].sub, input[run].has)
    /\ call' = NoCall
    /\ UNCHANGED <<silver_vars, gold, master>>

\* the second call for the quarter: the files of the first call are where
\* it left them
CallAgain ==
    /\ gpc = "returned"
    /\ run = 1
    /\ run' = 2
    /\ gpc' = "statements"
    /\ zip' = NoZip
    /\ sub' = NoSub
    /\ call' = NoCall
    /\ archived' = {}
    /\ UNCHANGED <<pc, cfg, tag_map, input, long, unknown, mapped, ret, first,
                   out_file, yq, silver, gold, master>>

NextStale ==
    \/ TransformCall
    \/ TransformMetadata
    \/ GoldStart
    \/ GoldFallbackMerge
    \/ GoldCoalesce
    \/ GoldJoinPart
    \/ GoldJoinShares
    \/ GoldDedup
    \/ GoldStamp
    \/ GoldWrite
    \/ CallAgain

SpecStale == InitStale /\ [][NextStale]_vars

-----------------------------------------------------------------------------
(* Properties of the gold builders *)

Pair(r) == <<r[Col("cik")], r[Col("fy")]>>
Keyed(t) == HasCol(t, "cik") /\ HasCol(t, "fy") /\ HasCol(t, "filed")
RowSet(t) == {t.rows[i] : i \in 1..Len(t.rows)}

\* the table the k-th statement transformer computes in a call on archive a
Computed(k, a) == Written(k, a.sub, a.has, EmptyFrame)

\* C26: the per-archive panel is built only from silver tables computed in
\* the same call: when build_gold_zip starts in the second call for a
\* quarter, each silver table it reads is the one a transformer of this call
\* computed, and is empty where that transformer's result was empty.
C26_NoStaleSilver ==
    (run = 2 /\ gpc = "gold") =>
        /\ silver.bs = Computed(1, input[2])
        /\ silver.is_ = Computed(2, input[2])
        /\ silver.cf = Computed(3, input[2])
        /\ silver.sh = Computed(4, input[2])
        /\ silver.meta = transform_metadata_to_wide(input[2].sub)

\* C25: the master panel does not depend on the order in which the archives
\* were processed: the pass that took the archives newest first ends with the
\* rows and the column order of the pass that took them oldest first.
C25_OrderIndependent ==
    (gpc = "done" /\ run = 2) =>
        /\ master.cols = first.file.cols
        /\ RowSet(master) = RowSet(first.file)

\* both passes are over, both archives left a panel with rows, and the two
\* panels differ in their columns
C25_Witness ==
    /\ gpc = "done"
    /\ run = 2
    /\ \A i \in 1..Len(YQS) : gold[i].exists /\ gold[i].df.rows # <<>>
    /\ gold[1].df.cols # gold[2].df.cols
    /\ master.rows # <<>>

\* C5: in the panel build_gold_zip writes every (cik, fy) pair of the joined
\* table occurs in exactly one row, that row is a row of the joined table
\* whose filed date is the maximum for the pair, and on the joined table
\* without one of cik, fy, filed the deduplication returns its input
C5_LatestPerCikFy ==
    call.built /\ Keyed(call.joined) =>
        /\ \A i, j \in 1..Len(call.panel.rows) :
              Pair(call.panel.rows[i]) = Pair(call.panel.rows[j]) => i = j
        /\ \A x \in RowSet(call.joined) :
              \E r \in RowSet(call.panel) :
                  /\ Pair(r) = Pair(x)
                  /\ x[Col("filed")] <= r[Col("filed")]
        /\ \A r \in RowSet(call.panel) :
              \E x \in RowSet(call.joined) : \A n \in SeqRange(call.joined.cols) : r[n] = x[n]
        /\ \A c \in {"cik", "fy", "filed"} :
              _latest_per_cik_fy(DropCol(call.joined, Col(c))) = DropCol(call.joined, Col(c))

\* a panel was written from a joined table in which a pair occurs with two
\* filed dates
C5_Witness ==
    /\ call.built /\ Keyed(call.joined)
    /\ Len(call.panel.rows) < Len(call.joined.rows)
    /\ \E x, y \in RowSet(call.joined) :
          Pair(x) = Pair(y) /\ x[Col("filed")] < y[Col("filed")]

\* C6: after build_gold_all the master panel has exactly one row for each
\* (cik, fy) pair, with the maximum filed date of the pair over the panels
\* of all archives
C6_MasterOneRowPerPair ==
    gpc = "done" /\ Keyed(master) =>
        /\ \A i, j \in 1..Len(master.rows) :
              Pair(master.rows[i]) = Pair(master.rows[j]) => i = j
        /\ \A k \in 1..Len(YQS) :
              gold[k].exists /\ Keyed(gold[k].df) =>
                  \A x \in RowSet(gold[k].df) :
                      \E r \in RowSet(master) :
                          Pair(r) = Pair(x) /\ x[Col("filed")] <= r[Col("filed")]

Amended(form) == form \in {"10-K/A", "10-Q/A"}

FormOf(r) ==
    IF Col("form") \in DOMAIN r THEN r[Col("form")] ELSE r[<<"form", <<"_x">>>>]

\* C7: a filing kept by a deduplication has the latest filed date of its
\* (cik, fy) pair among the candidates, and is an amended form when an
\* amended candidate shares that date: in the metadata table against the
\* annual filings of the archive, in the panel against the joined table
C7_AmendedOnTie ==
    /\ gpc # "idle" =>
          \A r \in RowSet(silver.meta) :
              \A x \in RowSet(extract_metadata(sub, {"10-K", "10-K/A"}, FY)) :
                  Pair(x) = Pair(r) =>
                      \/ x[Col("filed")] < r[Col("filed")]
                      \/ /\ x[Col("filed")] = r[Col("filed")]
                         /\ Amended(x[Col("form")]) => Amended(r[Col("form")])
    /\ call.built /\ Keyed(call.joined) =>
          \A r \in RowSet(call.panel) :
              \A x \in RowSet(call.joined) :
                  Pair(x) = Pair(r) =>
                      \/ x[Col("filed")] < r[Col("filed")]
                      \/ /\ x[Col("filed")] = r[Col("filed")]
                         /\ Amended(FormOf(x)) => Amended(FormOf(r))

\* the frame a statement table hands to the join
JoinPart == NonIdPart(_dedup_cols(Parts[call.k]))

\* C18: a balance-sheet, income-statement or cash-flow table brings to the
\* join, besides the filing id, canonical value columns only: none of cik,
\* name, form, fy, fp, filed, period, sic, and no column the left side has.
C18_ValueColumnsOnly ==
    (gpc = "parts" /\ call.k <= Len(Parts) /\ ~IsEmpty(Parts[call.k])) =>
        /\ \A n \in SeqRange(JoinPart.cols) : n = Col("adsh") \/ n[1] \notin IdCols
        /\ Overlap(call.df, JoinPart) = {}

Ended == call.built \/ call.raised

AdshOf(t) == IF HasCol(t, "adsh") THEN {t.rows[i][Col("adsh")] : i \in 1..Len(t.rows)} ELSE {}

\* C19: with an empty metadata table and a non-empty statement table,
\* build_gold_zip does not raise and the table it hands to the deduplication
\* has a row for every filing of the balance-sheet, income-statement and
\* cash-flow tables; with five empty tables it writes an empty panel.
C19_FallbackGrid ==
    (zip # NoZip /\ Ended /\ IsEmpty(silver.meta)) =>
        /\ call.built
        /\ gold[zip.yq].exists
        /\ Dfs # <<>> =>
               \A k \in 1..Len(Parts) : AdshOf(Parts[k]) \subseteq AdshOf(call.joined)
        /\ Dfs = <<>> => IsEmpty(gold[zip.yq].df)

\* C20: the join of the shares table leaves the number of rows and the set of
\* filing ids of the panel as they were.
C20_SharesJoinKeepsRows ==
    [][GoldJoinShares =>
          /\ Len(call'.df.rows) = Len(call.df.rows)
          /\ AdshOf(call'.df) = AdshOf(call.df)]_vars

\* a non-empty shares table was joined: a filing of the grid has no shares
\* row, and the shares table has a filing the grid does not know
C20_Witness ==
    /\ gpc = "dedup"
    /\ ~IsEmpty(silver.sh)
    /\ AdshOf(call.joined) \ AdshOf(silver.sh) # {}
    /\ AdshOf(silver.sh) \ AdshOf(call.joined) # {}

\* the filings with a row in the balance-sheet, income-statement or cash-flow
\* table of the archive
StatementFilings == AdshOf(silver.bs) \cup AdshOf(silver.is_) \cup AdshOf(silver.cf)

\* a later-filed filing of the same company and fiscal year is in the archive
Superseded(a) ==
    \E b \in StatementFilings \cup AdshOf(silver.meta) :
        /\ Filings[b].cik = Filings[a].cik
        /\ Filings[b].fy = Filings[a].fy
        /\ Filings[b].filed > Filings[a].filed

\* C27: when build_gold_zip has ended, every filing with a row in a statement
\* table and none in the metadata table, and not superseded by a later filing
\* of its company and fiscal year, has exactly one row of its own in the panel.
C27_UnlistedFilingsKept ==
    (gpc = "returned" /\ Ended) =>
        \A a \in StatementFilings \ AdshOf(silver.meta) :
            ~Superseded(a) =>
                /\ call.built
                /\ Cardinality({i \in 1..Len(call.panel.rows) :
                                   call.panel.rows[i][Col("adsh")] = a}) = 1

FlagCols == {"bs_balanced_flag", "cf_balanced_flag", "coverage_score"}

\* C29: the quality flags of a row depend on the row's own values only: a
\* filing has in the master panel the bs_balanced_flag, cf_balanced_flag and
\* coverage_score it has in the panel of its archive.
C29_FlagsOfOwnValues ==
    gpc = "done" =>
        \A i \in 1..Len(YQS) :
            \A q \in RowSet(gold[i].df) : \A r \in RowSet(master) :
                r[Col("adsh")] = q[Col("adsh")] =>
                    \A f \in FlagCols : r[Col(f)] = q[Col(f)]

\* the tables the statement extractors read
Required == {"sub", "pre", "num"}

\* C16: an archive without one of the submissions, presentation and numeric
\* tables fails to load with an error, and no silver table and no panel is
\* written for it; an archive that has the three tables loads without error.
C16_RequiredTables ==
    zip # NoZip =>
        /\ ~(Required \subseteq zip.members) =>
               /\ zip.error = "FileNotFoundError"
               /\ silver = NoSilver
               /\ ~gold[zip.yq].exists
        /\ Required \subseteq zip.members => zip.error # "FileNotFoundError"

\* the frames written for the archive being built
Outputs == {silver.bs, silver.is_, silver.cf, silver.sh, silver.meta, call.panel}

\* C17: when the submissions table lacks a requested column, no extractor or
\* transformer raises, and the column is in no table written for the archive.
C17_AbsentColumnsTolerated ==
    zip # NoZip =>
        /\ zip.error # "KeyError"
        /\ \A c \in Absent(sub), t \in Outputs : ~HasCol(t, c)

-----------------------------------------------------------------------------
(* The balance-sheet and cash-flow extractors on the tables of an archive  *)

MaxPreRows == 2
MaxNumRows == 2

\* the columns the loader requests from the submissions table
sub_cols == SubCols \o <<"fye", "accepted", "countryba", "stprba">>

\* the requested columns a numeric table has
NumCols == {"adsh", "tag", "ddate", "qtrs", "uom", "value", "coreg", "version"}

\* presentation rows: filing, tag, statement designator
PreRows ==
    {[adsh |-> 1, tag |-> "StockholdersEquity", stmt |-> <<"B", "S">>],
     [adsh |-> 1, tag |-> "StockholdersEquity", stmt |-> <<"b", "s">>],
     [adsh |-> 2, tag |-> "StockholdersEquity", stmt |-> <<"B", "S">>],
     [adsh |-> 1, tag |-> "Assets", stmt |-> <<"B", "S">>],
     [adsh |-> 1, tag |-> "StockholdersEquity", stmt |-> <<"C", "F">>],
     [adsh |-> 2, tag |-> "StockholdersEquity", stmt |-> <<"S", "C", "F">>],
     [adsh |-> 1, tag |-> "StockholdersEquity", stmt |-> <<"I", "S">>],
     [adsh |-> 1, tag |-> "StockholdersEquity", stmt |-> NaU]}

\* numeric rows; a value may be missing
NumRows ==
    {[adsh |-> 1, tag |-> "StockholdersEquity", value |-> 1],
     [adsh |-> 1, tag |-> "StockholdersEquity", value |-> NaN],
     [adsh |-> 2, tag |-> "StockholdersEquity", value |-> 1],
     [adsh |-> 1, tag |-> "Assets", value |-> 2],
     [adsh |-> 3, tag |-> "StockholdersEquity", value |-> 1]}

Contains(t, w) == \E i \in 0..(Len(t) - Len(w)) : SubSeq(t, i + 1, i + Len(w)) = w

\* the mask on the presentation table
StmtMask(stmt, d) ==
    IF stmt = "BS" THEN d # NaU /\ Upper(d) = <<"B", "S">>
    ELSE Upper(AsStr(d)) = <<"C", "F">> \/ Contains(Upper(AsStr(d)), <<"C", "F">>)

\* the table returned when the presentation table has no tag of the statement
EmptyExtract(stmt) ==
    [cols |-> IF stmt = "BS"
              THEN {"adsh", "tag", "ddate", "qtrs", "uom", "value", "cik", "name", "form",
                    "fy", "fp", "period", "filed", "sic", "source_zip"}
              ELSE {"adsh", "tag", "version", "ddate", "qtrs", "uom", "coreg", "value",
                    "cik", "name", "form", "fy", "fp", "period", "filed", "sic",
                    "instance", "fye", "accepted", "countryba", "stprba", "source_zip"},
     rows |-> <<>>]

\* meta_cols: named outright by the balance-sheet extractor, intersected with
\* the columns present by the cash-flow extractor
meta_cols(stmt, s) ==
    IF stmt = "BS" THEN IdCols \cup {"instance"}
    ELSE SeqRange(sub_cols) \cap SeqRange(s.cols)

\* the facts of the tagged (filing, tag) pairs with a numeric value, each
\* with the metadata of its filing when the form is in valid_forms
FullExtract(stmt, pre, num, s) ==
    LET Tagged(r) == \E i \in 1..Len(pre) :
                         /\ StmtMask(stmt, pre[i].stmt)
                         /\ pre[i].adsh = r.adsh
                         /\ pre[i].tag = r.tag
        Numeric(r) == r.value # NaN
        kept == SelectSeq(SelectSeq(num, Tagged), Numeric)
    IN  [cols |-> NumCols \cup meta_cols(stmt, s) \cup {"source_zip"},
         rows |-> [i \in 1..Len(kept) |->
                      MkFact(stmt, kept[i].adsh, kept[i].tag, Filings[kept[i].adsh].period,
                             AlignedQ(stmt), BaseUnit(stmt), kept[i].value)]]

NoTags(stmt, pre) == \A i \in 1..Len(pre) : ~StmtMask(stmt, pre[i].stmt)

InitExtract ==
    /\ pc = "archive"
    /\ cfg \in [stmt : {"BS", "CF"}, forms : {ALL_FORMS}, fp : {FpNone},
                 return_unknown : {FALSE}]
    /\ tag_map = DefaultTagMap(cfg.stmt)
    /\ zip \in [yq : {1}, members : {Members}, error : {""},
                 pre : SeqsUpTo(PreRows, MaxPreRows), num : SeqsUpTo(NumRows, MaxNumRows)]
    /\ sub \in [cols : {SelectSeq(sub_cols, LAMBDA c : c \notin absent) :
                            absent \in SubShapes},
                 ids : {<<1, 2, 3>>}]
    /\ input = EmptyDF
    /\ long = EmptyDF
    /\ unknown = EmptyDF
    /\ mapped = EmptyDF
    /\ ret = NoRet
    /\ run = 1
    /\ first = NoFirst
    /\ out_file = NoFile
    /\ gpc = "idle"
    /\ yq = 0
    /\ archived = {}
    /\ silver = <<>>
    /\ call = <<>>
    /\ gold = <<>>
    /\ master = <<>>

\* extract_balance_sheets / extract_cash_flows
Extract ==
    /\ pc = "archive"
    /\ pc' = "extracted"
    /\ IF NoTags(cfg.stmt, zip.pre)
       THEN input' = EmptyExtract(cfg.stmt) /\ UNCHANGED zip
       ELSE IF ~(meta_cols(cfg.stmt, sub) \subseteq SeqRange(sub.cols))
       THEN input' = EmptyDF /\ zip' = [zip EXCEPT !.error = "KeyError"]
       ELSE input' = FullExtract(cfg.stmt, zip.pre, zip.num, sub) /\ UNCHANGED zip
    /\ UNCHANGED <<cfg, tag_map, long, unknown, mapped, ret, run, first, out_file,
                   gpc, yq, sub, archived, silver, call, gold, master>>

NextExtract == Extract

SpecExtract == InitExtract /\ [][NextExtract]_vars

\* C21: every row a balance-sheet or cash-flow extractor returns is a fact of
\* a filing whose form is in the extractor's allow-list, and carries that
\* filing's metadata.
C21_ExtractorAllowList ==
    pc = "extracted" =>
        \A i \in 1..Len(input.rows) :
            LET r == input.rows[i]
            IN  /\ Filings[r.adsh].form \in ExtractorForms(cfg.stmt)
                /\ \A c \in IdCols : r[c] = Filings[r.adsh][c]

\* C22: with no (filing, tag) pair of the statement in the presentation
\* table the extractor returns, without raising, a table of no rows that has
\* the columns of a non-empty result for the statement.
C22_EmptySchemaComplete ==
    (pc = "extracted" /\ NoTags(cfg.stmt, zip.pre)) =>
        /\ zip.error = ""
        /\ input.rows = <<>>
        /\ input.cols = FullExtract(cfg.stmt, zip.pre, zip.num, sub).cols

-----------------------------------------------------------------------------
(* _qc_flags on panels drawn from a bounded set: the statement columns a   *)
(* panel can carry, in any combination, over rows around the tolerance     *)

MaxPanelRows == 2

QcBsCols == {<<>>, <<"TotalAssets", "TotalLiabilities", "ShareholdersEquity">>,
             <<"TotalAssets", "TotalLiabilities", "ShareholdersEquity", "TemporaryEquity">>,
             <<"TotalAssets", "TotalLiabilities">>}
QcCfCols == {<<>>, <<"CFO", "CFI", "CFF">>, <<"CFO", "CFI">>}
QcIsCols == {<<>>, <<"Revenue", "OperatingIncome", "NetIncome">>}
QcShCols == {<<>>, <<"CommonSharesOutstanding">>}

QcRow(ta, tl, se, te, cfo, cfi, cff, is, so) ==
    [TotalAssets |-> ta, TotalLiabilities |-> tl, ShareholdersEquity |-> se,
     TemporaryEquity |-> te, CFO |-> cfo, CFI |-> cfi, CFF |-> cff,
     Revenue |-> is, OperatingIncome |-> is, NetIncome |-> is,
     CommonSharesOutstanding |-> so, adsh |-> 1]

QcRows == {
    QcRow(1000000, 600000, 400000, NaN, 500, 300, 200, 9, 7),
    QcRow(1000000, 600000, 390000, NaN, 500, 0 - 2000, 200, 9, NaN),
    QcRow(1000000, 600000, 399000, NaN, 500, 300, 201, NaN, 7),
    QcRow(1000000, 600000, 398999, 0 - 1, 500, 0 - 2000, 499, 9, 7),
    QcRow(1000000, 600000, 390000, 10000, 0, 0, 0, 9, 7),
    QcRow(1000000, NaN, 1000000, NaN, NaN, 300, 200, 9, 7),
    QcRow(NaN, 600000, 400000, NaN, 500, NaN, 200, NaN, 7),
    QcRow(600000, 600000, NaN, 5000, 500, 300, NaN, 9, 7),
    QcRow(1000000, 600000, 400000, NaN, NaN, NaN, NaN, NaN, NaN),
    QcRow(NaN, NaN, NaN, NaN, 5000, NaN, NaN, 9, NaN),
    QcRow(NaN, NaN, NaN, NaN, NaN, NaN, NaN, NaN, NaN)}

QcFrames ==
    {[cols |-> NamesOf(<<"adsh">> \o b \o c \o i \o h),
      rows |-> [k \in 1..Len(rs) |->
                   [n \in SeqRange(NamesOf(<<"adsh">> \o b \o c \o i \o h)) |-> rs[k][n[1]]]]] :
        b \in QcBsCols, c \in QcCfCols, i \in QcIsCols, h \in QcShCols,
        rs \in SeqsUpTo(QcRows, MaxPanelRows)}

InitQc ==
    /\ pc = "idle"
    /\ cfg = <<>>
    /\ tag_map = <<>>
    /\ input = EmptyDF
    /\ long = EmptyDF
    /\ unknown = EmptyDF
    /\ mapped = EmptyDF
    /\ ret = NoRet
    /\ run = 1
    /\ first = NoFirst
    /\ out_file = NoFile
    /\ gpc = "qc"
    /\ yq = 0
    /\ zip = <<>>
    /\ sub = <<>>
    /\ archived = {}
    /\ silver = NoSilver
    /\ call \in {[NoCall EXCEPT !.df = f] : f \in QcFrames}
    /\ gold = <<>>
    /\ master = EmptyFrame

\* df = _qc_flags(df): the columns are assigned into the table that was
\* passed, and that table is what is returned
QcFlags ==
    /\ gpc = "qc"
    /\ call' = [call EXCEPT !.df = _qc_flags(call.df), !.panel = _qc_flags(call.df)]
    /\ gpc' = "flagged"
    /\ UNCHANGED <<silver_vars, yq, zip, sub, archived, silver, gold, master>>

\* the flags are computed again on a table that already has them
QcFlagsAgain ==
    /\ gpc = "flagged"
    /\ call' = [call EXCEPT !.df = _qc_flags(call.panel),
                            !.panel = _qc_flags(call.panel)]
    /\ gpc' = "reflagged"
    /\ UNCHANGED <<silver_vars, yq, zip, sub, archived, silver, gold, master>>

NextQc ==
    \/ QcFlags
    \/ QcFlagsAgain

SpecQc == InitQc /\ [][NextQc]_vars

-----------------------------------------------------------------------------
(* Properties of the quality flags *)

Flagged == gpc \in {"flagged", "reflagged"}

Given(r, c) == Col(c) \in DOMAIN r /\ r[Col(c)] # NaN

BsPresent(r) ==
    Given(r, "TotalAssets") /\ Given(r, "TotalLiabilities") /\ Given(r, "ShareholdersEquity")

BsDifference(r) ==
    Abs(r[Col("TotalAssets")]
        - (r[Col("TotalLiabilities")] + r[Col("ShareholdersEquity")]
           + (IF Given(r, "TemporaryEquity") THEN r[Col("TemporaryEquity")] ELSE 0)))

\* C11: in a row that has TotalAssets, TotalLiabilities and ShareholdersEquity,
\* bs_balanced_flag is true exactly when |TotalAssets - (TotalLiabilities +
\* ShareholdersEquity + TemporaryEquity if present)| is at most 1000
C11_BsBalanced ==
    Flagged =>
        \A r \in RowSet(call.panel) :
            BsPresent(r) => r[Col("bs_balanced_flag")] = Flag(BsDifference(r) <= 1000)

\* a flagged panel with a row off by exactly 1000 (true) and a row off by
\* 10000 (false)
C11_Witness ==
    /\ Flagged
    /\ \E r \in RowSet(call.panel) :
          BsPresent(r) /\ BsDifference(r) = 1000 /\ r[Col("bs_balanced_flag")] = "True"
    /\ \E r \in RowSet(call.panel) :
          BsPresent(r) /\ BsDifference(r) = 10000 /\ r[Col("bs_balanced_flag")] = "False"

\* C12: in a row that lacks TotalAssets, TotalLiabilities or
\* ShareholdersEquity (column absent or value missing) bs_balanced_flag is
\* missing
C12_BsUnknown ==
    Flagged =>
        \A r \in RowSet(call.panel) :
            ~BsPresent(r) => r[Col("bs_balanced_flag")] = NaS

CfPresent(r) == Given(r, "CFO") /\ Given(r, "CFI") /\ Given(r, "CFF")

\* C13: cf_balanced_flag is true or false by |CFO + CFI + CFF| <= 1000 when
\* the row has all three, and missing otherwise
C13_CfBalanced ==
    Flagged =>
        \A r \in RowSet(call.panel) :
            r[Col("cf_balanced_flag")] =
                IF CfPresent(r)
                THEN Flag(Abs(r[Col("CFO")] + r[Col("CFI")] + r[Col("CFF")]) <= 1000)
                ELSE NaS

\* the twelve fields of the checklist under the names the transformers give
\* their columns
Checklist == {"TotalAssets", "TotalLiabilities", "ShareholdersEquity",
              "Revenue", "OperatingIncome", "NetIncome", "CFO", "CFI", "CFF",
              "CommonSharesOutstanding", "WASOBasic", "WASODiluted"}

\* C14: coverage_score is the number of checklist fields the row has, over
\* twelve
C14_CoverageOfTwelve ==
    Flagged =>
        \A r \in RowSet(call.panel) :
            /\ r[Col("coverage_score")] # NaR
            /\ r[Col("coverage_score")][1] * 12
                   = Cardinality({c \in Checklist : Given(r, c)}) * r[Col("coverage_score")][2]

\* C24: no stage changes a table it received: after _qc_flags has run, the
\* table that was passed to it is what it was before the call.
C24_ArgumentUnchanged ==
    [][(gpc = "qc" /\ gpc' = "flagged") => call'.df = call.df]_vars

====
